---- MODULE Spec2Model ----
(***************************************************************************)
(* The HTTP(S) fetch engine of go-web-browser: the response parser         *)
(* (net/helpers.go), the connection pool (net/pool.go), the response cache *)
(* (net/cache.go), URL parsing (url/url.go) and the redirect-following     *)
(* fetcher (net/http.go).                                                  *)
(*                                                                         *)
(* Text is a sequence of symbols.  A symbol is a single character where    *)
(* the code counts or splits characters (digits, separators, body bytes)   *)
(* and a whole word where the code only compares it (header names, host    *)
(* names, directive names).  Every symbol counts as one byte.              *)
(***************************************************************************)
EXTENDS Integers, Sequences, FiniteSets, TLC

(***************************************************************************)
(* strings / strconv                                                       *)
(***************************************************************************)

\* unicode.IsSpace restricted to the symbols that occur: strings.TrimSpace
WhiteSpace == {" ", "\t", "\r", "\n"}

RECURSIVE TrimLeft(_)
TrimLeft(s) ==
    IF s # <<>> /\ Head(s) \in WhiteSpace THEN TrimLeft(Tail(s)) ELSE s

RECURSIVE TrimRight(_)
TrimRight(s) ==
    IF s # <<>> /\ s[Len(s)] \in WhiteSpace
    THEN TrimRight(SubSeq(s, 1, Len(s) - 1))
    ELSE s

TrimSpace(s) == TrimRight(TrimLeft(s))

HasPrefix(s, p) == Len(s) >= Len(p) /\ SubSeq(s, 1, Len(p)) = p

TrimPrefix(s, p) == IF HasPrefix(s, p) THEN SubSeq(s, Len(p) + 1, Len(s)) ELSE s

\* strings.Index, 1-based: position of the first occurrence of pat, 0 if none
Index(s, pat) ==
    LET hits == {i \in 1..(Len(s) - Len(pat) + 1) :
                    SubSeq(s, i, i + Len(pat) - 1) = pat}
    IN  IF hits = {} THEN 0 ELSE CHOOSE i \in hits : \A j \in hits : i <= j

Contains(s, pat) == Index(s, pat) > 0

\* strings.SplitN for n >= 1 and a non-empty separator
RECURSIVE SplitN(_, _, _)
SplitN(s, sep, n) ==
    LET i == Index(s, sep)
    IN  IF n <= 1 \/ i = 0
        THEN <<s>>
        ELSE <<SubSeq(s, 1, i - 1)>>
             \o SplitN(SubSeq(s, i + Len(sep), Len(s)), sep, n - 1)

\* strings.Split: no limit on the number of parts
Split(s, sep) == SplitN(s, sep, Len(s) + 1)

\* strings.ToLower on the capitalised words that occur
LowerSym(c) ==
    CASE c = "Content-Length"    -> "content-length"
      [] c = "Transfer-Encoding" -> "transfer-encoding"
      [] c = "Cache-Control"     -> "cache-control"
      [] c = "Location"          -> "location"
      [] c = "Connection"        -> "connection"
      [] OTHER                   -> c

ToLower(s) == [i \in 1..Len(s) |-> LowerSym(s[i])]

DecDigits == {"0", "1", "2", "3", "4", "5", "6", "7", "8", "9"}

HexDigits == DecDigits \cup {"a", "b", "c", "d", "e", "f"}

DigitVal(c) ==
    CASE c = "0" -> 0 [] c = "1" -> 1 [] c = "2" -> 2 [] c = "3" -> 3
      [] c = "4" -> 4 [] c = "5" -> 5 [] c = "6" -> 6 [] c = "7" -> 7
      [] c = "8" -> 8 [] c = "9" -> 9 [] c = "a" -> 10 [] c = "b" -> 11
      [] c = "c" -> 12 [] c = "d" -> 13 [] c = "e" -> 14 [] c = "f" -> 15

RECURSIVE DigitsVal(_, _)
DigitsVal(s, base) ==
    IF s = <<>> THEN 0
    ELSE DigitsVal(SubSeq(s, 1, Len(s) - 1), base) * base + DigitVal(s[Len(s)])

\* strconv.ParseInt(s, base, 64): optional sign, then one or more digits
ParseInt(s, digits, base) ==
    LET signed == s # <<>> /\ Head(s) \in {"+", "-"}
        ds     == IF signed THEN Tail(s) ELSE s
        ok     == ds # <<>> /\ \A i \in 1..Len(ds) : ds[i] \in digits
        mag    == IF ok THEN DigitsVal(ds, base) ELSE 0
    IN  [ok |-> ok, val |-> IF signed /\ Head(s) = "-" THEN 0 - mag ELSE mag]

\* strconv.Atoi
Atoi(s) == ParseInt(s, DecDigits, 10)

DigitSym(d) ==
    CASE d = 0 -> "0" [] d = 1 -> "1" [] d = 2 -> "2" [] d = 3 -> "3"
      [] d = 4 -> "4" [] d = 5 -> "5" [] d = 6 -> "6" [] d = 7 -> "7"
      [] d = 8 -> "8" [] d = 9 -> "9"

\* fmt's %d for a non-negative integer
RECURSIVE Itoa(_)
Itoa(n) == IF n < 10 THEN <<DigitSym(n)>> ELSE Itoa(n \div 10) \o <<DigitSym(n % 10)>>

(***************************************************************************)
(* Go maps with string keys: a function whose domain is the keys present   *)
(***************************************************************************)

EmptyMap == <<>>

MapHas(m, k) == k \in DOMAIN m

\* m[k] with the zero value of a string for an absent key
\* a lookup that answers "/" for a key the map does not have
MapGetOrRoot(m, k) == IF k \in DOMAIN m THEN m[k] ELSE <<"/">>

MapGet(m, k) == IF k \in DOMAIN m THEN m[k] ELSE <<>>

MapSet(m, k, v) == [x \in (DOMAIN m) \cup {k} |-> IF x = k THEN v ELSE m[x]]

\* delete that removes every key
MapDeleteAll(m, k) == [x \in {} |-> m[x]]

MapDelete(m, k) == [x \in (DOMAIN m) \ {k} |-> m[x]]

(***************************************************************************)
(* bufio.Reader over a connection.  buf is what the peer has sent and the  *)
(* reader has not consumed; end tells what a read finds after buf: "eof"   *)
(* (the peer closed its side), "reset" (a transport error) or "stall" (the *)
(* peer sends nothing more and keeps the connection open, so the read      *)
(* never returns).                                                         *)
(***************************************************************************)

EndErr(r) ==
    CASE r.end = "eof"   -> "EOF"
      [] r.end = "reset" -> "ERR"
      [] r.end = "stall" -> "block"

\* reader.ReadString('\n')
ReadString(r) ==
    LET i == Index(r.buf, <<"\n">>)
    IN  IF i > 0
        THEN [err |-> "nil", data |-> SubSeq(r.buf, 1, i),
              rd |-> [r EXCEPT !.buf = SubSeq(r.buf, i + 1, Len(r.buf))]]
        ELSE [err |-> EndErr(r), data |-> r.buf, rd |-> [r EXCEPT !.buf = <<>>]]

\* io.ReadFull(reader, make([]byte, n)) for n >= 0
ReadFull(r, n) ==
    IF Len(r.buf) >= n
    THEN [err |-> "nil", data |-> SubSeq(r.buf, 1, n),
          rd |-> [r EXCEPT !.buf = SubSeq(r.buf, n + 1, Len(r.buf))]]
    ELSE [err |-> EndErr(r), data |-> r.buf, rd |-> [r EXCEPT !.buf = <<>>]]

\* io.ReadAll(reader): end of stream is not an error
ReadAll(r) ==
    [err  |-> IF r.end = "eof" THEN "nil" ELSE EndErr(r),
     data |-> r.buf,
     rd   |-> [r EXCEPT !.buf = <<>>]]

\* a parsing step that takes a failed read for the end of an empty response
ReadFailureSwallowed(e, r) ==
    [kind |-> "ok", statusCode |-> 200, body |-> <<>>, headers |-> EmptyMap, rd |-> r,
     untilEOF |-> FALSE]

\* the outcome of a parsing step that stopped on read error e
ReadFailure(e, r) ==
    [kind |-> IF e = "block" THEN "block" ELSE "err",
     statusCode |-> 0, body |-> <<>>, headers |-> EmptyMap, rd |-> r, untilEOF |-> FALSE]

ParseFailure(r) ==
    [kind |-> "err", statusCode |-> 0, body |-> <<>>, headers |-> EmptyMap, rd |-> r,
     untilEOF |-> FALSE]

\* make([]byte, n) with n < 0 is a run-time panic
ParsePanic(r) ==
    [kind |-> "panic", statusCode |-> 0, body |-> <<>>, headers |-> EmptyMap, rd |-> r,
     untilEOF |-> FALSE]

(***************************************************************************)
(* net/helpers.go                                                          *)
(***************************************************************************)

\* readChunkedBody that puts each chunk in front of the ones before it
RECURSIVE readChunkedBodyReversed(_, _)
readChunkedBodyReversed(r, body) ==
    LET sl        == ReadString(r)
        sizeLine  == TrimSpace(sl.data)
        chunkSize == ParseInt(sizeLine, HexDigits, 16)
        trailer   == ReadString(sl.rd)
        chunkData == ReadFull(sl.rd, chunkSize.val)
        crlf      == ReadString(chunkData.rd)
    IN  IF sl.err # "nil" THEN ReadFailure(sl.err, sl.rd)
        ELSE IF ~chunkSize.ok THEN ParseFailure(sl.rd)
        ELSE IF chunkSize.val = 0
        THEN \* the result of reading the trailing line is dropped
             IF trailer.err = "block" THEN ReadFailure("block", trailer.rd)
             ELSE [kind |-> "ok", statusCode |-> 0, body |-> body,
                   headers |-> EmptyMap, rd |-> trailer.rd, untilEOF |-> FALSE]
        ELSE IF chunkSize.val < 0 THEN ParsePanic(sl.rd)
        ELSE IF chunkData.err # "nil" THEN ReadFailure(chunkData.err, chunkData.rd)
        ELSE IF crlf.err # "nil" THEN ReadFailure(crlf.err, crlf.rd)
        ELSE readChunkedBodyReversed(crlf.rd, chunkData.data \o body)

RECURSIVE readChunkedBody(_, _)
readChunkedBody(r, body) ==
    LET sl        == ReadString(r)
        sizeLine  == TrimSpace(sl.data)
        chunkSize == ParseInt(sizeLine, HexDigits, 16)
        trailer   == ReadString(sl.rd)
        chunkData == ReadFull(sl.rd, chunkSize.val)
        crlf      == ReadString(chunkData.rd)
    IN  IF sl.err # "nil" THEN ReadFailure(sl.err, sl.rd)
        ELSE IF ~chunkSize.ok THEN ParseFailure(sl.rd)
        ELSE IF chunkSize.val = 0
        THEN \* the result of reading the trailing line is dropped
             IF trailer.err = "block" THEN ReadFailure("block", trailer.rd)
             ELSE [kind |-> "ok", statusCode |-> 0, body |-> body,
                   headers |-> EmptyMap, rd |-> trailer.rd, untilEOF |-> FALSE]
        ELSE IF chunkSize.val < 0 THEN ParsePanic(sl.rd)
        ELSE IF chunkData.err # "nil" THEN ReadFailure(chunkData.err, chunkData.rd)
        ELSE IF crlf.err # "nil" THEN ReadFailure(crlf.err, crlf.rd)
        ELSE readChunkedBody(crlf.rd, body \o chunkData.data)

RECURSIVE readHeaders(_, _)
readHeaders(r, headers) ==
    LET rl       == ReadString(r)
        line     == TrimSpace(rl.data)
        colonIdx == Index(line, <<":">>)
        key      == TrimSpace(SubSeq(line, 1, colonIdx - 1))
        value    == TrimSpace(SubSeq(line, colonIdx + 1, Len(line)))
        done     == [kind |-> "ok", statusCode |-> 0, body |-> <<>>,
                     headers |-> headers, rd |-> rl.rd, untilEOF |-> FALSE]
    IN  IF rl.err = "EOF" THEN done
        ELSE IF rl.err # "nil" THEN ReadFailure(rl.err, rl.rd)
        ELSE IF rl.data = <<"\r", "\n">> \/ rl.data = <<"\n">> THEN done
        ELSE IF colonIdx > 1
        THEN readHeaders(rl.rd, MapSet(headers, ToLower(key), value))
        ELSE readHeaders(rl.rd, headers)

\* readBody that looks at Content-Length before Transfer-Encoding
readBodyLengthFirst(r, headers) ==
    LET chunked       == readChunkedBody(r, <<>>)
        contentLength == Atoi(MapGet(headers, <<"content-length">>))
        fixed         == ReadFull(r, contentLength.val)
        all           == ReadAll(r)
    IN  IF MapHas(headers, <<"content-length">>)
        THEN IF ~contentLength.ok \/ contentLength.val < 0 THEN ParseFailure(r)
             ELSE IF fixed.err # "nil" THEN ReadFailure(fixed.err, fixed.rd)
             ELSE [kind |-> "ok", statusCode |-> 0, body |-> fixed.data,
                   headers |-> EmptyMap, rd |-> fixed.rd, untilEOF |-> FALSE]
        ELSE IF MapHas(headers, <<"transfer-encoding">>)
           /\ headers[<<"transfer-encoding">>] = <<"chunked">>
        THEN chunked
        ELSE IF all.err # "nil" THEN ReadFailure(all.err, all.rd)
             ELSE [kind |-> "ok", statusCode |-> 0, body |-> all.data,
                   headers |-> EmptyMap, rd |-> all.rd, untilEOF |-> TRUE]

readBody(r, headers) ==
    LET chunked       == readChunkedBody(r, <<>>)
        contentLength == Atoi(MapGet(headers, <<"content-length">>))
        fixed         == ReadFull(r, contentLength.val)
        all           == ReadAll(r)
    IN  IF MapHas(headers, <<"transfer-encoding">>)
           /\ headers[<<"transfer-encoding">>] = <<"chunked">>
        THEN chunked
        ELSE IF MapHas(headers, <<"content-length">>)
        THEN IF ~contentLength.ok \/ contentLength.val < 0 THEN ParseFailure(r)
             ELSE IF fixed.err # "nil" THEN ReadFailure(fixed.err, fixed.rd)
             ELSE [kind |-> "ok", statusCode |-> 0, body |-> fixed.data,
                   headers |-> EmptyMap, rd |-> fixed.rd, untilEOF |-> FALSE]
        ELSE IF all.err # "nil" THEN ReadFailure(all.err, all.rd)
             ELSE [kind |-> "ok", statusCode |-> 0, body |-> all.data,
                   headers |-> EmptyMap, rd |-> all.rd, untilEOF |-> TRUE]

ParseResponse(r) ==
    LET sl         == ReadString(r)
        statusLine == TrimSpace(sl.data)
        parts      == SplitN(statusLine, <<" ">>, 3)
        statusCode == Atoi(parts[2])
        hs         == readHeaders(sl.rd, EmptyMap)
        bd         == readBody(hs.rd, hs.headers)
    IN  IF sl.err # "nil" THEN ReadFailure(sl.err, sl.rd)
        ELSE IF Len(parts) < 2 THEN ParseFailure(sl.rd)
        ELSE IF ~statusCode.ok THEN ParseFailure(sl.rd)
        ELSE IF hs.kind # "ok" THEN hs
        ELSE IF bd.kind # "ok" THEN bd
        ELSE [kind |-> "ok", statusCode |-> statusCode.val, body |-> bd.body,
              headers |-> hs.headers, rd |-> bd.rd, untilEOF |-> bd.untilEOF]

(***************************************************************************)
(* url/url.go                                                              *)
(***************************************************************************)

SchemeHTTP == <<"http">>

SchemeHTTPS == <<"http", "s">>

SchemeFile == <<"file">>

SchemeData == <<"data">>

SchemeViewSource == <<"view-source">>

DefaultHTTPPort == 80

DefaultHTTPSPort == 443

SchemeDelimiter == <<":", "/", "/">>

PathDelimiter == <<"/">>

PortDelimiter == <<":">>

NoURL == [Scheme |-> <<>>, Host |-> <<>>, Port |-> 0, Path |-> <<>>]

\* (*URL).String for http and https URLs
URLString(u) ==
    IF (u.Scheme = SchemeHTTP /\ u.Port = DefaultHTTPPort)
       \/ (u.Scheme = SchemeHTTPS /\ u.Port = DefaultHTTPSPort)
    THEN u.Scheme \o SchemeDelimiter \o u.Host \o u.Path
    ELSE u.Scheme \o SchemeDelimiter \o u.Host \o PortDelimiter \o Itoa(u.Port) \o u.Path

parseHostPath(scheme, rest) ==
    IF scheme = SchemeFile THEN [host |-> <<>>, path |-> rest]
    ELSE IF Contains(rest, PathDelimiter)
    THEN LET parts == SplitN(rest, PathDelimiter, 2)
         IN  [host |-> parts[1], path |-> PathDelimiter \o parts[2]]
    ELSE [host |-> rest, path |-> PathDelimiter]

parsePort(scheme, host) ==
    IF scheme = SchemeFile THEN [ok |-> TRUE, cleanHost |-> host, port |-> 0]
    ELSE IF Contains(host, PortDelimiter)
    THEN LET parts == SplitN(host, PortDelimiter, 2)
             port  == Atoi(parts[2])
         IN  IF ~port.ok THEN [ok |-> FALSE, cleanHost |-> <<>>, port |-> 0]
             ELSE [ok |-> TRUE, cleanHost |-> parts[1], port |-> port.val]
    ELSE IF scheme = SchemeHTTPS
    THEN [ok |-> TRUE, cleanHost |-> host, port |-> DefaultHTTPSPort]
    ELSE [ok |-> TRUE, cleanHost |-> host, port |-> DefaultHTTPPort]

NewURL(urlStr) ==
    LET parts == SplitN(urlStr, SchemeDelimiter, 2)
        scheme == parts[1]
        hp     == parseHostPath(scheme, parts[2])
        pp     == parsePort(scheme, hp.host)
    IN  IF HasPrefix(urlStr, SchemeViewSource \o PortDelimiter)
        THEN [ok |-> TRUE,
              url |-> [Scheme |-> SchemeViewSource, Host |-> <<>>, Port |-> 0,
                       Path |-> SubSeq(urlStr, 3, Len(urlStr))]]
        ELSE IF HasPrefix(urlStr, SchemeData \o PortDelimiter)
        THEN [ok |-> TRUE,
              url |-> [Scheme |-> SchemeData, Host |-> <<>>, Port |-> 0,
                       Path |-> SubSeq(urlStr, 3, Len(urlStr))]]
        ELSE IF Len(parts) < 2 THEN [ok |-> FALSE, url |-> NoURL]
        ELSE IF scheme \notin {SchemeHTTP, SchemeHTTPS, SchemeFile}
        THEN [ok |-> FALSE, url |-> NoURL]
        ELSE IF ~pp.ok THEN [ok |-> FALSE, url |-> NoURL]
        ELSE [ok |-> TRUE,
              url |-> [Scheme |-> scheme, Host |-> pp.cleanHost, Port |-> pp.port,
                       Path |-> hp.path]]

(***************************************************************************)
(* net/http.go: resolveURL and the address of a target                     *)
(***************************************************************************)

\* resolveURL that takes every Location as a path below the root of base
resolveURLAsPath(base, location) ==
    [ok |-> TRUE, url |-> [base EXCEPT !.Path = <<"/">> \o location]]

\* a resolution that stays at the base and ignores the location
resolveURLStaysAtBase(base, location) == [ok |-> TRUE, url |-> base]

resolveURL(base, location) ==
    IF HasPrefix(location, <<"http", ":", "/", "/">>)
       \/ HasPrefix(location, <<"http", "s", ":", "/", "/">>)
    THEN NewURL(location)
    ELSE IF HasPrefix(location, <<"/">>)
    THEN IF base.Scheme = SchemeHTTPS /\ base.Port = DefaultHTTPSPort
         THEN NewURL(<<"http", "s", ":", "/", "/">> \o base.Host \o location)
         ELSE IF base.Scheme = SchemeHTTP /\ base.Port = DefaultHTTPPort
         THEN NewURL(<<"http", ":", "/", "/">> \o base.Host \o location)
         ELSE NewURL(base.Scheme \o <<":", "/", "/">> \o base.Host \o <<":">>
                     \o Itoa(base.Port) \o location)
    ELSE [ok |-> FALSE, url |-> NoURL]

\* fmt.Sprintf("%s:%d", u.Host, u.Port)
Address(u) == u.Host \o <<":">> \o Itoa(u.Port)

(***************************************************************************)
(* net/pool.go: the operations on the connections map.  closed is the set  *)
(* of connections on which Close has been called.                          *)
(***************************************************************************)

\* a Close that is forgotten
ConnCloseSkipped(closed, conn) == closed

\* conn.Close()
ConnClose(closed, conn) == closed \cup {conn}

MaxConnectionsPerHost == 6

\* pool.connections[address]: nil for an absent key
Idle(connections, address) ==
    IF address \in DOMAIN connections THEN connections[address] ELSE <<>>

\* the calls that run wholly between pool.mu.Lock() and the deferred
\* pool.mu.Unlock(): Get, Put and Close, conn.Close() of Put and Close included
PoolLocked == {"Get", "Put", "Close"}

\* Get that finds nothing
PoolGetMiss(connections, address) ==
    [found |-> FALSE, conn |-> 0, connections |-> connections]

\* Get that hands out the last connection and leaves it in the list
PoolGetKeep(connections, address) ==
    LET conns == Idle(connections, address)
    IN  IF Len(conns) = 0
        THEN [found |-> FALSE, conn |-> 0, connections |-> connections]
        ELSE [found |-> TRUE, conn |-> conns[Len(conns)], connections |-> connections]

\* Get that hands out the oldest idle connection
PoolGetFIFO(connections, address) ==
    LET conns == Idle(connections, address)
    IN  IF Len(conns) = 0
        THEN [found |-> FALSE, conn |-> 0, connections |-> connections]
        ELSE [found |-> TRUE, conn |-> Head(conns),
              connections |-> MapSet(connections, address, Tail(conns))]

PoolGet(connections, address) ==
    LET conns   == Idle(connections, address)
        lastIdx == Len(conns)
    IN  IF Len(conns) = 0
        THEN [found |-> FALSE, conn |-> 0, connections |-> connections]
        ELSE [found |-> TRUE, conn |-> conns[lastIdx],
              connections |-> MapSet(connections, address,
                                     SubSeq(conns, 1, lastIdx - 1))]

\* Put that neither stores nor closes the connection
PoolPutNothing(connections, closed, address, conn) ==
    [connections |-> connections, closed |-> closed]

\* Put that admits one connection more than the limit
PoolPutOneMore(connections, closed, address, conn) ==
    LET conns == Idle(connections, address)
    IN  IF Len(conns) <= MaxConnectionsPerHost
        THEN [connections |-> MapSet(connections, address, Append(conns, conn)),
              closed |-> closed]
        ELSE [connections |-> connections, closed |-> ConnClose(closed, conn)]

\* Put that makes room in a full pool by closing the oldest idle connection
PoolPutEvictOldest(connections, closed, address, conn) ==
    LET conns == Idle(connections, address)
    IN  IF Len(conns) < MaxConnectionsPerHost
        THEN [connections |-> MapSet(connections, address, Append(conns, conn)),
              closed |-> closed]
        ELSE [connections |-> MapSet(connections, address, Append(Tail(conns), conn)),
              closed |-> ConnClose(closed, Head(conns))]

PoolPut(connections, closed, address, conn) ==
    LET conns == Idle(connections, address)
    IN  IF Len(conns) < MaxConnectionsPerHost
        THEN [connections |-> MapSet(connections, address, Append(conns, conn)),
              closed |-> closed]
        ELSE [connections |-> connections, closed |-> ConnClose(closed, conn)]

\* Close that closes and removes the idle connections of every address
PoolCloseEverywhere(connections, closed, address) ==
    [connections |-> EmptyMap,
     closed |-> closed \cup UNION {{connections[a][i] : i \in 1..Len(connections[a])}
                                     : a \in DOMAIN connections}]

\* Close that closes the idle connections and leaves them in the pool
PoolCloseKeeps(connections, closed, address) ==
    LET conns == Idle(connections, address)
    IN  [connections |-> connections,
         closed |-> closed \cup {conns[i] : i \in 1..Len(conns)}]

PoolClose(connections, closed, address) ==
    LET conns == Idle(connections, address)
    IN  [connections |-> MapDelete(connections, address),
         closed |-> closed \cup {conns[i] : i \in 1..Len(conns)}]

(***************************************************************************)
(* net/cache.go                                                            *)
(***************************************************************************)

RECURSIVE parseDirectives(_, _, _)
parseDirectives(directives, foundMaxAge, maxAgeValue) ==
    LET directive == TrimSpace(Head(directives))
        ageStr    == TrimPrefix(directive, <<"max-age", "=">>)
        age       == Atoi(ageStr)
    IN  IF directives = <<>>
        THEN IF foundMaxAge THEN [noStore |-> FALSE, maxAge |-> maxAgeValue]
             ELSE [noStore |-> FALSE, maxAge |-> 0]
        ELSE IF directive = <<"no-store">> THEN [noStore |-> TRUE, maxAge |-> 0 - 1]
        ELSE IF HasPrefix(directive, <<"max-age", "=">>)
        THEN IF age.ok /\ age.val >= 0
             THEN parseDirectives(Tail(directives), TRUE, age.val)
             ELSE parseDirectives(Tail(directives), foundMaxAge, maxAgeValue)
        ELSE IF directive # <<>> /\ directive # <<"max-age">>
        THEN [noStore |-> FALSE, maxAge |-> 0 - 2]
        ELSE parseDirectives(Tail(directives), foundMaxAge, maxAgeValue)

parseCacheControl(cacheControl) ==
    IF cacheControl = <<>> THEN [noStore |-> FALSE, maxAge |-> 0]
    ELSE parseDirectives(Split(cacheControl, <<",">>), FALSE, 0)

\* Get that takes max-age 0 for a lifetime of no seconds
CacheGetNoSentinel(entries, url, t) ==
    IF url \notin DOMAIN entries
    THEN [found |-> FALSE, entries |-> entries]
    ELSE IF t - entries[url].Timestamp > entries[url].MaxAge
    THEN [found |-> FALSE, entries |-> MapDelete(entries, url)]
    ELSE [found |-> TRUE, entries |-> entries]

\* Get that takes an entry for expired as soon as its age reaches max-age
CacheGetEarly(entries, url, t) ==
    IF url \notin DOMAIN entries
    THEN [found |-> FALSE, entries |-> entries]
    ELSE IF entries[url].MaxAge > 0 /\ t - entries[url].Timestamp >= entries[url].MaxAge
    THEN [found |-> FALSE, entries |-> MapDelete(entries, url)]
    ELSE [found |-> TRUE, entries |-> entries]

\* Get that reports an expired entry as a miss and leaves it in the map
CacheGetKeepExpired(entries, url, t) ==
    IF url \notin DOMAIN entries
    THEN [found |-> FALSE, entries |-> entries]
    ELSE IF entries[url].MaxAge > 0 /\ t - entries[url].Timestamp > entries[url].MaxAge
    THEN [found |-> FALSE, entries |-> entries]
    ELSE [found |-> TRUE, entries |-> entries]

\* Cache.Get at time t (time.Now().Unix())
CacheGet(entries, url, t) ==
    IF url \notin DOMAIN entries
    THEN [found |-> FALSE, entries |-> entries]
    ELSE IF entries[url].MaxAge > 0 /\ t - entries[url].Timestamp > entries[url].MaxAge
    THEN [found |-> FALSE, entries |-> MapDelete(entries, url)]
    ELSE [found |-> TRUE, entries |-> entries]

\* Put that stores a response with an unsupported directive
CachePutUnsupported(entries, url, statusCode, body, headers, t) ==
    LET cc == parseCacheControl(MapGet(headers, <<"cache-control">>))
    IN  IF statusCode # 200 THEN entries
        ELSE IF cc.noStore THEN entries
        ELSE MapSet(entries, url,
                    [Body |-> body, Headers |-> headers, Timestamp |-> t,
                     MaxAge |-> cc.maxAge])

\* Put that does not look at the status
CachePutAnyStatus(entries, url, statusCode, body, headers, t) ==
    LET cc == parseCacheControl(MapGet(headers, <<"cache-control">>))
    IN  IF cc.noStore THEN entries
        ELSE IF cc.maxAge = 0 - 2 THEN entries
        ELSE MapSet(entries, url,
                    [Body |-> body, Headers |-> headers, Timestamp |-> t,
                     MaxAge |-> cc.maxAge])

\* Cache.Put at time t
CachePut(entries, url, statusCode, body, headers, t) ==
    LET cc == parseCacheControl(MapGet(headers, <<"cache-control">>))
    IN  IF statusCode # 200 THEN entries
        ELSE IF cc.noStore THEN entries
        ELSE IF cc.maxAge = 0 - 2 THEN entries
        ELSE MapSet(entries, url,
                    [Body |-> body, Headers |-> headers, Timestamp |-> t,
                     MaxAge |-> cc.maxAge])

\* Clear that leaves the map as it is
CacheClearKeeps(entries) == entries

\* c.entries = make(map[string]*CacheEntry)
CacheClear(entries) == EmptyMap

(***************************************************************************)
(* The environment: endpoints the callers ask for, and what a server may   *)
(* send in answer to one request.                                          *)
(***************************************************************************)

CRLF == <<"\r", "\n">>

StatusLine(code) == <<"HTTP/1.1", " ">> \o code \o <<" ", "X">> \o CRLF

HeaderLine(name, value) == <<name, ":", " ">> \o value \o CRLF

U1 == [Scheme |-> SchemeHTTP, Host |-> <<"a">>, Port |-> 80, Path |-> <<"/", "p">>]

U2 == [Scheme |-> SchemeHTTP, Host |-> <<"a">>, Port |-> 80, Path |-> <<"/", "q">>]

U3 == [Scheme |-> SchemeHTTP, Host |-> <<"b">>, Port |-> 80, Path |-> <<"/", "p">>]

Endpoints == {U1, U2, U3}

Addresses == {Address(u) : u \in Endpoints}

\* 200, Content-Length framing, no Cache-Control; the connection stays open
W200Length ==
    [data |-> StatusLine(<<"2", "0", "0">>) \o HeaderLine("Content-Length", <<"1">>)
              \o CRLF \o <<"A">>,
     end |-> "stall"]

\* 200, chunked framing, Cache-Control: max-age=1
W200Chunked ==
    [data |-> StatusLine(<<"2", "0", "0">>)
              \o HeaderLine("Transfer-Encoding", <<"chunked">>)
              \o HeaderLine("Cache-Control", <<"max-age", "=", "1">>)
              \o CRLF \o <<"1">> \o CRLF \o <<"B">> \o CRLF \o <<"0">> \o CRLF \o CRLF,
     end |-> "stall"]

\* 200, neither Content-Length nor Transfer-Encoding: the body ends when the
\* server closes the connection
W200UntilEOF ==
    [data |-> StatusLine(<<"2", "0", "0">>) \o CRLF \o <<"C">>,
     end |-> "eof"]

\* 200 with Cache-Control: no-store
W200NoStore ==
    [data |-> StatusLine(<<"2", "0", "0">>)
              \o HeaderLine("Cache-Control", <<"no-store">>)
              \o HeaderLine("Content-Length", <<"1">>) \o CRLF \o <<"D">>,
     end |-> "stall"]

W404 ==
    [data |-> StatusLine(<<"4", "0", "4">>) \o HeaderLine("Content-Length", <<"1">>)
              \o CRLF \o <<"E">>,
     end |-> "stall"]

\* 302 to a root-relative location
W302Relative ==
    [data |-> StatusLine(<<"3", "0", "2">>) \o HeaderLine("Location", <<"/", "q">>)
              \o HeaderLine("Content-Length", <<"0">>) \o CRLF,
     end |-> "stall"]

\* 301 to an absolute location on another host, marked no-store
W301Absolute ==
    [data |-> StatusLine(<<"3", "0", "1">>)
              \o HeaderLine("Location", <<"http", ":", "/", "/", "b", "/", "p">>)
              \o HeaderLine("Cache-Control", <<"no-store">>)
              \o HeaderLine("Content-Length", <<"0">>) \o CRLF,
     end |-> "stall"]

W302NoLocation ==
    [data |-> StatusLine(<<"3", "0", "2">>) \o HeaderLine("Content-Length", <<"0">>)
              \o CRLF,
     end |-> "stall"]

\* 302 whose location is neither absolute nor root-relative
W302BadLocation ==
    [data |-> StatusLine(<<"3", "0", "2">>) \o HeaderLine("Location", <<"q">>)
              \o HeaderLine("Content-Length", <<"0">>) \o CRLF,
     end |-> "stall"]

\* the status code is not a number
WBadStatus == [data |-> <<"HTTP/1.1", " ", "OK">> \o CRLF, end |-> "stall"]

\* the body is shorter than Content-Length and the server closes
WShortBody ==
    [data |-> StatusLine(<<"2", "0", "0">>) \o HeaderLine("Content-Length", <<"2">>)
              \o CRLF \o <<"A">>,
     end |-> "eof"]

\* the transport fails while the headers are read
WReset == [data |-> StatusLine(<<"2", "0", "0">>), end |-> "reset"]

\* the server closes in the middle of the header block
WTruncatedHeaders ==
    [data |-> StatusLine(<<"2", "0", "0">>)
              \o HeaderLine("Cache-Control", <<"no-store">>),
     end |-> "eof"]

\* a chunk-size line with a negative number
WNegativeChunk ==
    [data |-> StatusLine(<<"2", "0", "0">>)
              \o HeaderLine("Transfer-Encoding", <<"chunked">>)
              \o CRLF \o <<"-", "1">> \o CRLF,
     end |-> "stall"]

Redirects == {W302Relative, W301Absolute, W302NoLocation, W302BadLocation}

Finals ==
    {W200Length, W200Chunked, W200UntilEOF, W200NoStore, W404, WBadStatus,
     WShortBody, WReset, WTruncatedHeaders, WNegativeChunk}

\* what a read finds on a connection whose peer has already closed it
WClosed == [data |-> <<>>, end |-> "eof"]

\* 302 whose Location header has an empty value
W302EmptyLocation ==
    [data |-> StatusLine(<<"3", "0", "2">>) \o HeaderLine("Location", <<>>)
              \o HeaderLine("Content-Length", <<"0">>) \o CRLF,
     end |-> "stall"]

\* 200 with Cache-Control: max-age=abc
W200BadMaxAge ==
    [data |-> StatusLine(<<"2", "0", "0">>)
              \o HeaderLine("Cache-Control", <<"max-age", "=", "abc">>)
              \o HeaderLine("Content-Length", <<"1">>) \o CRLF \o <<"F">>,
     end |-> "stall"]

(***************************************************************************)
(* The state                                                               *)
(***************************************************************************)

Procs == {1, 2}

\* bounds of the exploration
MaxConns == 2

MaxHops == 1

MaxTime == 2

MaxHeld == 1

VARIABLES
    connections,  \* GlobalConnectionPool.connections: address -> idle connections
    closed,       \* the connections on which Close has been called
    sock,         \* every connection ever created: [address, tls, peer, drained];
                  \* drained: a body was read from it until the end of the stream
    entries,      \* GlobalCache.entries: URL string -> CacheEntry
    now,          \* time.Now().Unix()
    pc,           \* where each caller of Fetch stands
    fs,           \* the locals of each caller's Fetch and doRequest
    held,         \* connections a direct user of the pool holds
    last          \* the last direct call on the pool or the cache, and its result

vars == <<connections, closed, sock, entries, now, pc, fs, held, last>>

\* n counts the calls of doRequest that reached the network
NoFetch ==
    [u |-> NoURL, currentURL |-> NoURL, i |-> 0, n |-> 0, conn |-> 0,
     statusCode |-> 0, body |-> <<>>, headers |-> EmptyMap, ret |-> <<>>,
     err |-> "nil", request |-> <<>>]

\* the locals of a Fetch that returns (body, err): only the result is left
Returned(f, body, err) ==
    [NoFetch EXCEPT !.u = f.u, !.n = f.n, !.ret = body, !.err = err]

NoCall ==
    [op |-> "none", key |-> <<>>, conn |-> 0, statusCode |-> 0, found |-> FALSE,
     body |-> <<>>, log |-> "none"]

Init ==
    /\ connections = EmptyMap
    /\ closed = {}
    /\ sock = <<>>
    /\ entries = EmptyMap
    /\ now = 0
    /\ pc = [p \in Procs |-> "idle"]
    /\ fs = [p \in Procs |-> NoFetch]
    /\ held = {}
    /\ last = NoCall

\* an unrecovered panic ends the program
Crashed == \E p \in Procs : pc[p] = "panic"

(***************************************************************************)
(* net/http.go: HTTPFetcher.Fetch and HTTPFetcher.doRequest, one action    *)
(* per access to the shared pool, the shared cache or the network          *)
(***************************************************************************)

\* a loop that goes round once more
maxRedirectsAndOne == 10 + 1

maxRedirects == 10

\* Fetch called with u: the cache lookup, and the return on a hit
Fetch(p, u) ==
    LET urlStr == URLString(u)
        g      == CacheGet(entries, urlStr, now)
    IN  /\ ~Crashed
        /\ pc[p] = "idle"
        /\ entries' = g.entries
        /\ IF g.found
           THEN /\ fs' = [fs EXCEPT ![p] = Returned([NoFetch EXCEPT !.u = u],
                                                      entries[urlStr].Body, "nil")]
                /\ pc' = [pc EXCEPT ![p] = "done"]
           ELSE /\ fs' = [fs EXCEPT ![p] = [NoFetch EXCEPT !.u = u, !.currentURL = u]]
                /\ pc' = [pc EXCEPT ![p] = "get"]
        /\ UNCHANGED <<connections, closed, sock, now, held, last>>

\* doRequest: GlobalConnectionPool.Get(address)
Get(p) ==
    LET g == PoolGet(connections, Address(fs[p].currentURL))
    IN  /\ ~Crashed
        /\ pc[p] = "get"
        /\ connections' = g.connections
        /\ fs' = [fs EXCEPT ![p].conn = g.conn]
        /\ pc' = [pc EXCEPT ![p] = IF g.found THEN "write" ELSE "dial"]
        /\ UNCHANGED <<closed, sock, entries, now, held, last>>

\* doRequest: tls.Dial or net.Dial
Dial(p) ==
    /\ ~Crashed
    /\ pc[p] = "dial"
    /\ \/ /\ Len(sock) < MaxConns
          /\ sock' = Append(sock, [address |-> Address(fs[p].currentURL),
                                   tls |-> fs[p].currentURL.Scheme = SchemeHTTPS,
                                   peer |-> "open", drained |-> FALSE])
          /\ fs' = [fs EXCEPT ![p].conn = Len(sock) + 1]
          /\ pc' = [pc EXCEPT ![p] = "write"]
       \/ /\ fs' = [fs EXCEPT ![p] = Returned(fs[p], <<>>, "dial")]
          /\ pc' = [pc EXCEPT ![p] = "done"]
          /\ sock' = sock
    /\ UNCHANGED <<connections, closed, entries, now, held, last>>

HTTPVersion == "HTTP/1.1"

UserAgent == "GoWebBrowser/1.0"

HeaderHost == "Host"

HeaderUserAgent == "User-Agent"

\* the orders in which a range over a map of these keys can visit them
Orders(keys) ==
    {o \in [1..Cardinality(keys) -> keys] : \A i, j \in DOMAIN o : o[i] = o[j] => i = j}

RECURSIVE HeaderLines(_, _)
HeaderLines(headers, order) ==
    IF order = <<>> THEN <<>>
    ELSE HeaderLine(Head(order), headers[Head(order)]) \o HeaderLines(headers, Tail(order))

\* request headers with Connection: close among them
RequestHeadersWithClose(u) ==
    (HeaderHost :> u.Host) @@ (HeaderUserAgent :> <<UserAgent>>)
        @@ ("Connection" :> <<"close">>)

\* doRequest: the headers map of the request
RequestHeaders(u) == (HeaderHost :> u.Host) @@ (HeaderUserAgent :> <<UserAgent>>)

\* doRequest: the request strings that the builder can produce for u, one for
\* each order in which the range over the headers map runs
Requests(u) ==
    {<<"GET", " ">> \o u.Path \o <<" ", HTTPVersion>> \o CRLF
        \o HeaderLines(RequestHeaders(u), o) \o CRLF : o \in Orders(DOMAIN RequestHeaders(u))}

\* doRequest: the request is built and conn.Write(request)
Write(p) ==
    /\ ~Crashed
    /\ pc[p] = "write"
    /\ \/ /\ pc' = [pc EXCEPT ![p] = "read"]
          /\ \E request \in Requests(fs[p].currentURL) :
                 fs' = [fs EXCEPT ![p].n = @ + 1, ![p].request = request]
          /\ closed' = closed
       \/ /\ closed' = ConnClose(closed, fs[p].conn)
          /\ fs' = [fs EXCEPT ![p] = Returned(fs[p], <<>>, "write")]
          /\ pc' = [pc EXCEPT ![p] = "done"]
    /\ UNCHANGED <<connections, sock, entries, now, held, last>>

\* doRequest: ParseResponse(conn) when the server answers with w
Read(p, w) ==
    \E res \in {ParseResponse([buf |-> w.data, end |-> w.end])} :
    LET c == fs[p].conn
    IN  /\ ~Crashed
        /\ pc[p] = "read"
        /\ IF sock[c].peer = "closed" THEN w = WClosed ELSE w # WClosed
        /\ res.kind # "block"
        /\ sock' = [sock EXCEPT ![c].peer = IF w.end = "stall" THEN @ ELSE "closed",
                                 ![c].drained = @ \/ (res.kind = "ok" /\ res.untilEOF)]
        /\ CASE res.kind = "ok" ->
                  /\ fs' = [fs EXCEPT ![p].statusCode = res.statusCode,
                                      ![p].body = res.body,
                                      ![p].headers = res.headers]
                  /\ pc' = [pc EXCEPT ![p] = "put"]
                  /\ closed' = closed
             [] res.kind = "err" ->
                  /\ closed' = ConnClose(closed, c)
                  /\ fs' = [fs EXCEPT ![p] = Returned(fs[p], <<>>, "parse")]
                  /\ pc' = [pc EXCEPT ![p] = "done"]
             [] res.kind = "panic" ->
                  /\ pc' = [pc EXCEPT ![p] = "panic"]
                  /\ UNCHANGED <<closed, fs>>
        /\ UNCHANGED <<connections, entries, now, held, last>>

\* Put after which Fetch serves the target of a redirect from the cache
PutLooksUpTarget(p) ==
    LET f        == fs[p]
        r        == PoolPut(connections, closed, Address(f.currentURL), f.conn)
        location == MapGet(f.headers, <<"location">>)
        nextURL  == resolveURL(f.currentURL, location)
    IN  /\ ~Crashed
        /\ pc[p] = "put"
        /\ connections' = r.connections
        /\ closed' = r.closed
        /\ IF f.statusCode < 300 \/ f.statusCode >= 400
           THEN /\ pc' = [pc EXCEPT ![p] = "store"]
                /\ fs' = [fs EXCEPT ![p].conn = 0, ![p].request = <<>>]
           ELSE IF location = <<>>
           THEN /\ pc' = [pc EXCEPT ![p] = "done"]
                /\ fs' = [fs EXCEPT ![p] = Returned(f, <<>>, "location")]
           ELSE IF ~nextURL.ok
           THEN /\ pc' = [pc EXCEPT ![p] = "done"]
                /\ fs' = [fs EXCEPT ![p] = Returned(f, <<>>, "resolve")]
           ELSE IF CacheGet(entries, URLString(nextURL.url), now).found
           THEN /\ pc' = [pc EXCEPT ![p] = "done"]
                /\ fs' = [fs EXCEPT ![p] =
                              Returned(f, entries[URLString(nextURL.url)].Body, "nil")]
           ELSE IF f.i + 1 < maxRedirects
           THEN /\ pc' = [pc EXCEPT ![p] = "get"]
                /\ fs' = [fs EXCEPT ![p] = [NoFetch EXCEPT !.u = f.u, !.n = f.n,
                                                          !.currentURL = nextURL.url,
                                                          !.i = f.i + 1]]
           ELSE /\ pc' = [pc EXCEPT ![p] = "done"]
                /\ fs' = [fs EXCEPT ![p] = Returned(f, <<>>, "limit")]
        /\ UNCHANGED <<sock, entries, now, held, last>>

\* Put after which Fetch resolves the Location against the URL it was called with
PutFromOriginal(p) ==
    LET f        == fs[p]
        r        == PoolPut(connections, closed, Address(f.currentURL), f.conn)
        location == MapGet(f.headers, <<"location">>)
        nextURL  == resolveURL(f.u, location)
    IN  /\ ~Crashed
        /\ pc[p] = "put"
        /\ connections' = r.connections
        /\ closed' = r.closed
        /\ IF f.statusCode < 300 \/ f.statusCode >= 400
           THEN /\ pc' = [pc EXCEPT ![p] = "store"]
                /\ fs' = [fs EXCEPT ![p].conn = 0, ![p].request = <<>>]
           ELSE IF location = <<>>
           THEN /\ pc' = [pc EXCEPT ![p] = "done"]
                /\ fs' = [fs EXCEPT ![p] = Returned(f, <<>>, "location")]
           ELSE IF ~nextURL.ok
           THEN /\ pc' = [pc EXCEPT ![p] = "done"]
                /\ fs' = [fs EXCEPT ![p] = Returned(f, <<>>, "resolve")]
           ELSE IF f.i + 1 < maxRedirects
           THEN /\ pc' = [pc EXCEPT ![p] = "get"]
                /\ fs' = [fs EXCEPT ![p] = [NoFetch EXCEPT !.u = f.u, !.n = f.n,
                                                          !.currentURL = nextURL.url,
                                                          !.i = f.i + 1]]
           ELSE /\ pc' = [pc EXCEPT ![p] = "done"]
                /\ fs' = [fs EXCEPT ![p] = Returned(f, <<>>, "limit")]
        /\ UNCHANGED <<sock, entries, now, held, last>>

\* doRequest: GlobalConnectionPool.Put(address, conn) and the return to Fetch,
\* then Fetch up to its next access to the cache or the pool
Put(p) ==
    LET f        == fs[p]
        r        == PoolPut(connections, closed, Address(f.currentURL), f.conn)
        location == MapGet(f.headers, <<"location">>)
        nextURL  == resolveURL(f.currentURL, location)
    IN  /\ ~Crashed
        /\ pc[p] = "put"
        /\ connections' = r.connections
        /\ closed' = r.closed
        /\ IF f.statusCode < 300 \/ f.statusCode >= 400
           THEN /\ pc' = [pc EXCEPT ![p] = "store"]
                /\ fs' = [fs EXCEPT ![p].conn = 0, ![p].request = <<>>]
           ELSE IF location = <<>>
           THEN /\ pc' = [pc EXCEPT ![p] = "done"]
                /\ fs' = [fs EXCEPT ![p] = Returned(f, <<>>, "location")]
           ELSE IF ~nextURL.ok
           THEN /\ pc' = [pc EXCEPT ![p] = "done"]
                /\ fs' = [fs EXCEPT ![p] = Returned(f, <<>>, "resolve")]
           ELSE IF f.i + 1 < maxRedirects
           THEN /\ pc' = [pc EXCEPT ![p] = "get"]
                /\ fs' = [fs EXCEPT ![p] = [NoFetch EXCEPT !.u = f.u, !.n = f.n,
                                                          !.currentURL = nextURL.url,
                                                          !.i = f.i + 1]]
           ELSE /\ pc' = [pc EXCEPT ![p] = "done"]
                /\ fs' = [fs EXCEPT ![p] = Returned(f, <<>>, "limit")]
        /\ UNCHANGED <<sock, entries, now, held, last>>

\* Store that overwrites the body of an entry in place and leaves the rest
StoreBodyOnly(p) ==
    LET f == fs[p]
        k == URLString(f.u)
    IN  /\ ~Crashed
        /\ pc[p] = "store"
        /\ entries' = IF k \in DOMAIN entries /\ f.statusCode = 200
                       THEN [entries EXCEPT ![k].Body = f.body]
                       ELSE CachePut(entries, k, f.statusCode, f.body, f.headers, now)
        /\ fs' = [fs EXCEPT ![p] = Returned(f, f.body, "nil")]
        /\ pc' = [pc EXCEPT ![p] = "done"]
        /\ UNCHANGED <<connections, closed, sock, now, held, last>>

\* Fetch: GlobalCache.Put(urlStr, statusCode, body, headers) and return body
\* Fetch that stores only a response that came without any redirect
StoreOnlyDirect(p) ==
    LET f == fs[p]
    IN  /\ ~Crashed
        /\ pc[p] = "store"
        /\ entries' = IF f.i = 0
                       THEN CachePut(entries, URLString(f.u), f.statusCode, f.body,
                                     f.headers, now)
                       ELSE entries
        /\ fs' = [fs EXCEPT ![p] = Returned(f, f.body, "nil")]
        /\ pc' = [pc EXCEPT ![p] = "done"]
        /\ UNCHANGED <<connections, closed, sock, now, held, last>>

\* Fetch that stores the response under the endpoint that answered last
StoreFinalKey(p) ==
    LET f == fs[p]
    IN  /\ ~Crashed
        /\ pc[p] = "store"
        /\ entries' = CachePut(entries, URLString(f.currentURL), f.statusCode, f.body,
                               f.headers, now)
        /\ fs' = [fs EXCEPT ![p] = Returned(f, f.body, "nil")]
        /\ pc' = [pc EXCEPT ![p] = "done"]
        /\ UNCHANGED <<connections, closed, sock, now, held, last>>

\* Fetch: GlobalCache.Put(urlStr, ...) and return
Store(p) ==
    LET f == fs[p]
    IN  /\ ~Crashed
        /\ pc[p] = "store"
        /\ entries' = CachePut(entries, URLString(f.u), f.statusCode, f.body,
                               f.headers, now)
        /\ fs' = [fs EXCEPT ![p] = Returned(f, f.body, "nil")]
        /\ pc' = [pc EXCEPT ![p] = "done"]
        /\ UNCHANGED <<connections, closed, sock, now, held, last>>

\* the caller takes the result of Fetch
Return(p) ==
    /\ ~Crashed
    /\ pc[p] = "done"
    /\ pc' = [pc EXCEPT ![p] = "idle"]
    /\ fs' = [fs EXCEPT ![p] = NoFetch]
    /\ UNCHANGED <<connections, closed, sock, entries, now, held, last>>

(***************************************************************************)
(* Direct users of the pool and of the cache (the tests of net/pool.go and *)
(* net/cache.go), who give to Put only a connection they hold              *)
(***************************************************************************)

MaxMock == 10

\* &mockConn{}: a connection that belongs to no address yet
NewConn ==
    /\ Len(sock) < MaxMock
    /\ Cardinality(held) < MaxHeld
    /\ sock' = Append(sock, [address |-> <<>>, tls |-> FALSE, peer |-> "open",
                              drained |-> FALSE])
    /\ held' = held \cup {Len(sock) + 1}
    /\ last' = [NoCall EXCEPT !.op = "New", !.conn = Len(sock) + 1]
    /\ UNCHANGED <<connections, closed, entries, now, pc, fs>>

\* conn, found := pool.Get(address)
Checkout(a) ==
    LET g == PoolGet(connections, a)
    IN  /\ ~Crashed
        /\ g.found => Cardinality(held) < MaxHeld
        /\ connections' = g.connections
        /\ held' = IF g.found THEN held \cup {g.conn} ELSE held
        /\ last' = [NoCall EXCEPT !.op = "Get", !.key = a, !.found = g.found,
                                   !.conn = g.conn]
        /\ UNCHANGED <<closed, sock, entries, now, pc, fs>>

\* pool.Put(address, c)
Checkin(a, c) ==
    LET r == PoolPut(connections, closed, a, c)
    IN  /\ ~Crashed
        /\ c \in held
        /\ connections' = r.connections
        /\ closed' = r.closed
        /\ held' = held \ {c}
        /\ last' = [NoCall EXCEPT !.op = "Put", !.key = a, !.conn = c]
        /\ UNCHANGED <<sock, entries, now, pc, fs>>

\* Close that also closes the connections of the address that are in use
EvictInUse(a) ==
    LET r == PoolClose(connections, closed, a)
    IN  /\ ~Crashed
        /\ connections' = r.connections
        /\ closed' = r.closed \cup {c \in 1..Len(sock) : sock[c].address = a}
        /\ last' = [NoCall EXCEPT !.op = "Close", !.key = a]
        /\ UNCHANGED <<sock, entries, now, pc, fs, held>>

\* pool.Close(address)
Evict(a) ==
    LET r == PoolClose(connections, closed, a)
    IN  /\ ~Crashed
        /\ connections' = r.connections
        /\ closed' = r.closed
        /\ last' = [NoCall EXCEPT !.op = "Close", !.key = a]
        /\ UNCHANGED <<sock, entries, now, pc, fs, held>>

\* entry, found := cache.Get(url)
Lookup(k) ==
    LET g == CacheGet(entries, k, now)
    IN  /\ ~Crashed
        /\ entries' = g.entries
        /\ last' = [NoCall EXCEPT !.op = "Lookup", !.key = k, !.found = g.found,
                                   !.body = IF g.found THEN entries[k].Body ELSE <<>>,
                                   !.log = IF g.found THEN "hit"
                                           ELSE IF k \in DOMAIN entries THEN "expired"
                                           ELSE "none"]
        /\ UNCHANGED <<connections, closed, sock, now, pc, fs, held>>

\* cache.Put(url, statusCode, body, headers)
StorePut(k, statusCode, body, headers) ==
    /\ ~Crashed
    /\ entries' = CachePut(entries, k, statusCode, body, headers, now)
    /\ last' = [NoCall EXCEPT !.op = "Store", !.key = k, !.statusCode = statusCode]
    /\ UNCHANGED <<connections, closed, sock, now, pc, fs, held>>

\* cache.Clear(); last.found records that the map held an entry
Clear ==
    /\ ~Crashed
    /\ entries' = CacheClear(entries)
    /\ last' = [NoCall EXCEPT !.op = "Clear", !.found = entries # EmptyMap]
    /\ UNCHANGED <<connections, closed, sock, now, pc, fs, held>>

\* a second passes
Tick ==
    /\ now < MaxTime
    /\ now' = now + 1
    /\ UNCHANGED <<connections, closed, sock, entries, pc, fs, held, last>>

\* the server closes its side of a connection that no exchange is using
ServerClose(c) ==
    /\ sock[c].peer = "open"
    /\ \A p \in Procs : pc[p] \in {"write", "read", "put"} => fs[p].conn # c
    /\ sock' = [sock EXCEPT ![c].peer = "closed"]
    /\ UNCHANGED <<connections, closed, entries, now, pc, fs, held, last>>

(***************************************************************************)
(* Specifications                                                          *)
(***************************************************************************)

\* what the server may answer to the exchange p is about to read, out of the
\* redirects rs and the other answers fs
Answers(p, rs, ws) ==
    IF pc[p] # "read" THEN {}
    ELSE IF sock[fs[p].conn].peer = "closed" THEN {WClosed}
    ELSE IF fs[p].i < MaxHops THEN rs \cup ws
    ELSE ws

\* one answer of each kind that matters to who owns the connection: a
\* redirect, a final response, and one that fails to parse
FewRedirects == {W302Relative}

FewFinals == {W200Length, WBadStatus}

Keys == {URLString(u) : u \in Endpoints}

\* concurrent callers of Fetch and a direct user of the pool
Next ==
    \/ \E p \in Procs : Fetch(p, U1)
    \/ \E p \in Procs : Get(p)
    \/ \E p \in Procs : Dial(p)
    \/ \E p \in Procs : Write(p)
    \/ \E p \in Procs : \E w \in Answers(p, FewRedirects, FewFinals) : Read(p, w)
    \/ \E p \in Procs : Put(p)
    \/ \E p \in Procs : Store(p)
    \/ \E p \in Procs : Return(p)
    \/ \E a \in Addresses : Checkout(a)
    \/ \E a \in Addresses, c \in held : Checkin(a, c)
    \/ \E a \in Addresses : Evict(a)

Spec == Init /\ [][Next]_vars

\* one caller of Fetch at a time, while time passes and servers come and go
NextSeq ==
    \/ \E u \in {U1, U3} : Fetch(1, u)
    \/ Get(1)
    \/ Dial(1)
    \/ Write(1)
    \/ \E w \in Answers(1, Redirects, Finals) : Read(1, w)
    \/ Put(1)
    \/ Store(1)
    \/ Return(1)
    \/ \E c \in 1..Len(sock) : ServerClose(c)
    \/ Tick

SpecSeq == Init /\ [][NextSeq]_vars

\* a direct user of the pool alone
NextPool ==
    \/ NewConn
    \/ Checkout(Address(U1))
    \/ \E c \in held : Checkin(Address(U1), c)
    \/ Evict(Address(U1))

SpecPool == Init /\ [][NextPool]_vars

\* the values of the Cache-Control header a direct user of the cache stores
CacheControls ==
    { <<"no-store">>,
      <<"max-age", "=", "1">>,
      <<"max-age", "=", "0">>,
      <<"max-age", "=", "2", ",", " ", "max-age", "=", "1">>,
      <<"private">>,
      <<"public">>,
      <<"no-cache">>,
      <<"must-revalidate">>,
      <<"max-age", "=", "1", ",", " ", "private">>,
      <<"private", ",", " ", "max-age", "=", "1">>,
      <<"max-age", "=", "1", ",", "no-store">>,
      <<"private", ",", "no-store">>,
      <<"no-store", ",", "private">>,
      <<",", " ", "max-age", "=", "1">>,
      <<"max-age", "=", "abc">>,
      <<"max-age", "=", "-", "5">>,
      <<"max-age">> }

HeaderSets == {EmptyMap} \cup {MapSet(EmptyMap, <<"cache-control">>, v) : v \in CacheControls}

Statuses == {200, 404}

Bodies == {<<"A">>, <<"B">>}

\* a direct user of the cache alone, while time passes
NextCache ==
    \/ \E k \in {URLString(U1), URLString(U2)} : Lookup(k)
    \/ \E k \in {URLString(U1), URLString(U2)}, st \in Statuses, b \in Bodies,
          h \in HeaderSets : StorePut(k, st, b, h)
    \/ Clear
    \/ Tick

SpecCache == Init /\ [][NextCache]_vars

\* what the server may answer to the exchange p is about to read, out of ws,
\* however many redirects the fetch has followed
Replies(p, ws) ==
    IF pc[p] # "read" THEN {}
    ELSE IF sock[fs[p].conn].peer = "closed" THEN {WClosed}
    ELSE ws

HopRedirects == {W302Relative, W301Absolute, W302NoLocation, W302EmptyLocation}

HopFinals == {W200Length, W404, W200BadMaxAge}

\* one caller whose fetch is redirected as long as the servers like
NextHops ==
    \/ Fetch(1, U1)
    \/ Get(1)
    \/ Dial(1)
    \/ Write(1)
    \/ \E w \in Replies(1, HopRedirects \cup HopFinals) : Read(1, w)
    \/ Put(1)
    \/ Store(1)
    \/ Return(1)

SpecHops == Init /\ [][NextHops]_vars

\* the responses whose framing says where they end
Framed == {W200Length, W200Chunked}

\* a response that the server cuts short by closing the connection
Truncated ==
    UNION {{[data |-> SubSeq(w.data, 1, k), end |-> "eof"] : k \in 0..(Len(w.data) - 1)} :
               w \in Framed}

\* one caller whose server sends framed responses whole and keeps the
\* connection open, or closes it before the response is complete
NextCodec ==
    \/ \E u \in {U1, U3} : Fetch(1, u)
    \/ Get(1)
    \/ Dial(1)
    \/ Write(1)
    \/ \E w \in Replies(1, Framed \cup Truncated) : Read(1, w)
    \/ Put(1)
    \/ Store(1)
    \/ Return(1)

SpecCodec == Init /\ [][NextCodec]_vars

\* the pool used directly with connections to two hosts, as in
\* TestConnectionPool_MultipleHosts
NextHosts ==
    \/ Len(sock) <= MaxConns /\ NewConn
    \/ \E a \in Addresses : Checkout(a)
    \/ \E a \in Addresses : \E c \in held : Checkin(a, c)
    \/ \E a \in Addresses : Evict(a)

SpecHosts == Init /\ [][NextHosts]_vars

\* 200, chunked in two chunks, "Hello" and " World"
W200TwoChunks ==
    [data |-> StatusLine(<<"2", "0", "0">>)
              \o HeaderLine("Transfer-Encoding", <<"chunked">>)
              \o HeaderLine("etag", <<"1">>)
              \o CRLF \o <<"5">> \o CRLF \o <<"H", "e", "l", "l", "o">> \o CRLF
              \o <<"6">> \o CRLF \o <<" ", "W", "o", "r", "l", "d">> \o CRLF
              \o <<"0">> \o CRLF \o CRLF,
     end |-> "stall"]

\* 200, chunked, one chunk of size a (ten bytes)
W200HexChunk ==
    [data |-> StatusLine(<<"2", "0", "0">>)
              \o HeaderLine("Transfer-Encoding", <<"chunked">>)
              \o HeaderLine("etag", <<"2">>)
              \o CRLF \o <<"a">> \o CRLF
              \o <<"0", "1", "2", "3", "4", "5", "6", "7", "8", "9">> \o CRLF
              \o <<"0">> \o CRLF \o CRLF,
     end |-> "stall"]

\* 200, chunked, with bytes behind the terminating chunk
W200ChunkedTail ==
    [data |-> StatusLine(<<"2", "0", "0">>)
              \o HeaderLine("Transfer-Encoding", <<"chunked">>)
              \o HeaderLine("etag", <<"3">>)
              \o CRLF \o <<"1">> \o CRLF \o <<"K">> \o CRLF \o <<"0">> \o CRLF \o CRLF
              \o <<"Z", "Z">>,
     end |-> "stall"]

\* 200 with both Transfer-Encoding: chunked and Content-Length
W200Both ==
    [data |-> StatusLine(<<"2", "0", "0">>)
              \o HeaderLine("Content-Length", <<"3">>)
              \o HeaderLine("Transfer-Encoding", <<"chunked">>)
              \o HeaderLine("etag", <<"4">>)
              \o CRLF \o <<"1">> \o CRLF \o <<"M">> \o CRLF \o <<"0">> \o CRLF \o CRLF,
     end |-> "stall"]

\* 200, Content-Length: 2, with bytes behind the body
W200LengthTail ==
    [data |-> StatusLine(<<"2", "0", "0">>)
              \o HeaderLine("Content-Length", <<"2">>)
              \o HeaderLine("etag", <<"5">>)
              \o CRLF \o <<"N", "N", "Z">>,
     end |-> "stall"]

Bodied ==
    {W200Length, W200Chunked, W200UntilEOF, W200TwoChunks, W200HexChunk,
     W200ChunkedTail, W200Both, W200LengthTail}

\* one caller whose server answers with complete responses in each of the
\* three framings
NextBody ==
    \/ \E u \in {U1, U3} : Fetch(1, u)
    \/ Get(1)
    \/ Dial(1)
    \/ Write(1)
    \/ \E w \in Replies(1, Bodied) : Read(1, w)
    \/ Put(1)
    \/ Store(1)
    \/ Return(1)

SpecBody == Init /\ [][NextBody]_vars

\* https://a:80/p: the https target on the address a:80 of http://a/p
U4 == [Scheme |-> SchemeHTTPS, Host |-> <<"a">>, Port |-> 80, Path |-> <<"/", "p">>]

\* one caller that fetches an http and an https target of one address
NextSchemes ==
    \/ \E u \in {U1, U4} : Fetch(1, u)
    \/ Get(1)
    \/ Dial(1)
    \/ Write(1)
    \/ \E w \in Replies(1, {W200Length, W404}) : Read(1, w)
    \/ Put(1)
    \/ Store(1)
    \/ Return(1)

SpecSchemes == Init /\ [][NextSchemes]_vars

\* two callers that fetch the same URL at once, each answered with one of
\* two different 200 responses
NextRace ==
    \/ \E p \in Procs : Fetch(p, U1)
    \/ \E p \in Procs : Get(p)
    \/ \E p \in Procs : Dial(p)
    \/ \E p \in Procs : Write(p)
    \/ \E p \in Procs : \E w \in Replies(p, {W200Length, W200Chunked}) : Read(p, w)
    \/ \E p \in Procs : Put(p)
    \/ \E p \in Procs : Store(p)
    \/ \E p \in Procs : Return(p)

SpecRace == Init /\ [][NextRace]_vars

(***************************************************************************)
(* Claims                                                                  *)
(***************************************************************************)

\* the places <<address, index>> at which connection c is idle in the pool
IdlePlaces(c) ==
    {x \in UNION {{<<a, i>> : i \in 1..Len(connections[a])} : a \in DOMAIN connections} :
        connections[x[1]][x[2]] = c}

IsIdle(c) == IdlePlaces(c) # {}

\* the exchanges in flight on connection c
Users(c) == {p \in Procs : pc[p] \in {"write", "read", "put"} /\ fs[p].conn = c}

\* C1: every connection is idle in the pool at exactly one place, or checked
\* out by exactly one exchange in flight (or by the one direct caller who
\* checked it out), or closed; never two of these, never two users at once.
C1_OneOwner ==
    \A c \in 1..Len(sock) :
        LET idle  == Cardinality(IdlePlaces(c))
            users == Cardinality(Users(c)) + (IF c \in held THEN 1 ELSE 0)
        IN  \/ idle = 1 /\ users = 0 /\ c \notin closed
            \/ idle = 0 /\ users = 1 /\ c \notin closed
            \/ idle = 0 /\ users = 0 /\ c \in closed

\* two callers are in flight at once on two connections, the first of them on
\* a connection that the direct caller had checked out and checked in again
C1_Witness ==
    /\ pc[1] = "read"
    /\ pc[2] = "put"
    /\ fs[1].conn = 1
    /\ fs[2].conn = 2
    /\ fs[2].i = 1
    /\ last.op = "Put"
    /\ last.conn = 1

IsIdleIn(conns, c) ==
    \E a \in DOMAIN conns : \E i \in 1..Len(conns[a]) : conns[a][i] = c

\* a step in which Fetch returns because the write or the parse failed leaves
\* the connection closed and out of the pool; and a connection enters the pool
\* only in the step that follows a parse without error on it
C2_Step ==
    /\ \A p \in Procs :
          (pc[p] \in {"write", "read"} /\ pc'[p] = "done")
              => /\ fs'[p].err \in {"write", "parse"}
                 /\ fs[p].conn \in closed'
                 /\ ~IsIdleIn(connections', fs[p].conn)
    /\ \A c \in 1..Len(sock') :
          (~IsIdleIn(connections, c) /\ IsIdleIn(connections', c))
              => \E p \in Procs : /\ pc[p] = "put"
                                  /\ pc'[p] # "put"
                                  /\ fs[p].conn = c
                                  /\ fs[p].statusCode > 0

\* C2: a fetch checks a connection in only right after an exchange on it ended
\* without error; when the write or the parse fails the connection is closed,
\* and a closed connection is never in the pool afterwards.
C2_CheckinOnlyAfterSuccess ==
    /\ [](\A c \in closed : ~IsIdle(c))
    /\ [][C2_Step]_vars

\* a fetch failed in parsing on a connection it had taken from the pool, where
\* an earlier exchange had put it
C2_Witness ==
    /\ pc[1] = "done"
    /\ fs[1].err = "parse"
    /\ fs[1].n = 1
    /\ Len(sock) = 1
    /\ closed = {1}
    /\ sock[1].peer = "open"
    /\ connections = MapSet(EmptyMap, Address(U1), <<>>)

\* C3: a connection whose body was read until the end of the stream is closed
\* and never idle in the pool.
C3_DrainedNotPooled ==
    \A c \in 1..Len(sock) :
        sock[c].drained => /\ ~IsIdle(c)
                           /\ Users(c) = {} => c \in closed

\* C4: every address has between 0 and 6 idle connections at any time.
C4_AtMostSixIdle ==
    \A a \in DOMAIN connections :
        Len(connections[a]) >= 0 /\ Len(connections[a]) <= 6

\* the pool is full and a further check-in has been turned away
C4_Witness ==
    /\ last.op = "Put"
    /\ Len(Idle(connections, last.key)) = 6
    /\ last.conn \in closed

\* a check-in into a full list closes the connection and leaves the list as it
\* was, with none of its connections closed; a check-in into a list that is
\* not full appends the connection and closes nothing
C5_Step ==
    (last'.op = "Put" /\ held' # held) =>
        LET a      == last'.key
            c      == last'.conn
            before == Idle(connections, a)
        IN  IF Len(before) = 6
            THEN /\ connections' = connections
                 /\ closed' = closed \cup {c}
                 /\ \A i \in 1..6 : before[i] \notin closed'
            ELSE /\ Idle(connections', a) = Append(before, c)
                 /\ closed' = closed

\* C5: checking in a connection when the address already has 6 idle ones closes
\* it and leaves the 6 unchanged and open; ten check-ins in a row keep the
\* first six and close the last four.
C5_FullPoolClosesNewcomer == [][C5_Step]_vars

\* ten connections were checked in one after the other
C5_Witness ==
    /\ last.op = "Put"
    /\ last.conn = 10
    /\ connections = MapSet(EmptyMap, Address(U1), <<1, 2, 3, 4, 5, 6>>)
    /\ closed = {7, 8, 9, 10}
    /\ held = {}

\* a checkout from an address with idle connections returns the one checked in
\* last and removes it; a checkout from an address with none reports not found
\* and changes nothing
C6_Step ==
    (last'.op = "Get" /\ <<last, connections, held>>' # <<last, connections, held>>) =>
        LET a      == last'.key
            before == Idle(connections, a)
            n      == Len(before)
        IN  IF n = 0
            THEN /\ ~last'.found
                 /\ last'.conn = 0
                 /\ <<connections, closed, held>>' = <<connections, closed, held>>
            ELSE /\ last'.found
                 /\ last'.conn = before[n]
                 /\ Idle(connections', a) = SubSeq(before, 1, n - 1)
                 /\ \A b \in DOMAIN connections \ {a} :
                        Idle(connections', b) = connections[b]
                 /\ closed' = closed

\* C6: checkout returns the most recently checked-in idle connection of the
\* address and takes it out of the pool; with none idle it returns not found
\* and changes nothing.
C6_CheckoutIsLIFO == [][C6_Step]_vars

\* connections 1 and 2 were checked in and the checkout returned 2
C6_Witness ==
    /\ last.op = "Get"
    /\ last.found
    /\ last.conn = 2
    /\ connections = MapSet(EmptyMap, Address(U1), <<1>>)
    /\ held = {2}

\* an entry is expired iff it has a positive max-age and is older than it
Unexpired(e, t) == ~(e.MaxAge > 0 /\ t - e.Timestamp > e.MaxAge)

\* a fetch that starts while the key of its endpoint has an unexpired entry
\* ends in the same step with the body of the entry, no error and no exchange,
\* and touches neither the pool nor any connection
C7_Step ==
    \A p \in Procs :
        (pc[p] = "idle" /\ pc'[p] # "idle") =>
            LET k == URLString(fs'[p].u)
            IN  (k \in DOMAIN entries /\ Unexpired(entries[k], now)) =>
                    /\ pc'[p] = "done"
                    /\ fs'[p].ret = entries[k].Body
                    /\ fs'[p].err = "nil"
                    /\ fs'[p].n = 0
                    /\ entries' = entries
                    /\ <<connections, sock, closed>>' = <<connections, sock, closed>>

\* C7: a fetch whose endpoint key has an unexpired cache entry returns exactly
\* the body of the entry, with no error and no network activity.
C7_HitNeedsNoNetwork == [][C7_Step]_vars

\* an entry stored with max-age=1 one second ago answered a fetch
C7_Witness ==
    /\ pc[1] = "done"
    /\ fs[1].n = 0
    /\ fs[1].err = "nil"
    /\ URLString(fs[1].u) \in DOMAIN entries
    /\ entries[URLString(fs[1].u)].MaxAge = 1
    /\ now - entries[URLString(fs[1].u)].Timestamp = 1
    /\ fs[1].ret = entries[URLString(fs[1].u)].Body

\* the Cache-Control value is absent, or every non-empty directive of it is
\* max-age=<non-negative integer>
Eligible(cacheControl) ==
    \/ cacheControl = <<>>
    \/ LET ds == Split(cacheControl, <<",">>)
       IN  \A i \in 1..Len(ds) :
               LET d == TrimSpace(ds[i])
               IN  \/ d = <<>>
                   \/ /\ HasPrefix(d, <<"max-age", "=">>)
                      /\ Len(d) > 2
                      /\ \A j \in 3..Len(d) : d[j] \in DecDigits

C8_Step ==
    (last'.op = "Store" /\ entries' # entries) =>
        /\ last'.statusCode = 200
        /\ Eligible(MapGet(entries'[last'.key].Headers, <<"cache-control">>))

\* C8: store leaves the cache unchanged unless the status is 200 and the
\* Cache-Control value is absent or made only of max-age=<non-negative integer>
\* directives.
C8_StoreOnlyEligible == [][C8_Step]_vars

\* a lookup of a key whose entry has a positive max-age hits and changes
\* nothing while the age of the entry is at most max-age, and otherwise misses
\* and removes the entry; a lookup of an absent key misses; and a key comes
\* into the cache only by a store for that key
C9_Step ==
    /\ (last'.op = "Lookup" /\ now' = now) =>
          LET k == last'.key
          IN  /\ (k \in DOMAIN entries /\ entries[k].MaxAge > 0) =>
                    IF now - entries[k].Timestamp <= entries[k].MaxAge
                    THEN /\ last'.found
                         /\ last'.body = entries[k].Body
                         /\ entries' = entries
                    ELSE /\ ~last'.found
                         /\ entries' = MapDelete(entries, k)
              /\ k \notin DOMAIN entries => ~last'.found /\ entries' = entries
    /\ \A k \in DOMAIN entries' \ DOMAIN entries :
          last'.op = "Store" /\ last'.key = k

\* C9: lookup of an entry with maxAge > 0 hits while now - storedAt <= maxAge
\* and misses once now - storedAt > maxAge; that miss removes the entry, which
\* stays absent until a new store for the key.
C9_ExpiryEvicts == [][C9_Step]_vars

\* a lookup found the entry expired and removed it
C9_Witness ==
    /\ last.op = "Lookup"
    /\ last.log = "expired"
    /\ ~last.found
    /\ last.key \notin DOMAIN entries
    /\ now = 2

\* the cache changes under a key only when a fetch of that very endpoint ends,
\* and then holds the body the fetch returns; when the final response is a
\* 200 that may be cached, the entry is there and a lookup finds it
C10_Step ==
    /\ \A j \in DOMAIN entries' :
          (j \notin DOMAIN entries \/ entries'[j] # entries[j]) =>
              \E p \in Procs : /\ pc[p] = "store"
                               /\ pc'[p] = "done"
                               /\ j = URLString(fs[p].u)
                               /\ entries'[j].Body = fs'[p].ret
    /\ \A p \in Procs :
          (/\ pc[p] = "store"
           /\ pc'[p] = "done"
           /\ fs[p].statusCode = 200
           /\ Eligible(MapGet(fs[p].headers, <<"cache-control">>))) =>
              LET k == URLString(fs[p].u)
              IN  /\ k \in DOMAIN entries'
                  /\ entries'[k].Body = fs'[p].ret
                  /\ entries'[k].Body = fs[p].body
                  /\ CacheGet(entries', k, now').found

\* C10: after a fetch that followed redirects to a 200 that may be cached, the
\* cache holds the body under the key of the endpoint first asked for, and the
\* fetch has put no entry under the key of any redirect target; a later fetch
\* of that endpoint is a hit.
C10_KeyedByOriginal == [][C10_Step]_vars

\* a fetch of http://a/p went through one redirect and its body is cached
\* under http://a/p alone
C10_Witness ==
    /\ pc[1] = "done"
    /\ fs[1].err = "nil"
    /\ fs[1].n = 2
    /\ fs[1].u = U1
    /\ DOMAIN entries = {URLString(U1)}
    /\ entries[URLString(U1)].Body = fs[1].ret
    /\ entries[URLString(U1)].Timestamp = now

\* the response the fetch has just read is a redirect
IsRedirect(f) == f.statusCode >= 300 /\ f.statusCode < 400

\* a Location that is an absolute http(s) URL or starts at the root
Resolvable(location) ==
    \/ HasPrefix(location, <<"/">>)
    \/ HasPrefix(location, <<"http", ":", "/", "/">>)
    \/ HasPrefix(location, <<"http", "s", ":", "/", "/">>)

\* when the tenth exchange of a fetch answers with a redirect that can be
\* resolved, the fetch ends there with the limit error, no body and the cache
\* as it was; and the limit error is returned only after ten exchanges
C11_Step ==
    \A p \in Procs :
        /\ (/\ pc[p] = "put"
            /\ fs[p].n = 10
            /\ IsRedirect(fs[p])
            /\ Resolvable(MapGet(fs[p].headers, <<"location">>))
            /\ pc'[p] # "put")
              => /\ pc'[p] = "done"
                 /\ fs'[p].err = "limit"
                 /\ fs'[p].ret = <<>>
                 /\ fs'[p].n = 10
                 /\ entries' = entries
        /\ (pc[p] # "done" /\ pc'[p] = "done" /\ fs'[p].err = "limit")
              => fs'[p].n = 10 /\ entries' = entries

\* C11: one fetch performs at most 10 exchanges; when each of the first 10
\* answers with a 3xx and a resolvable Location the fetch ends with the
\* redirect-limit error, returns no body and stores nothing.
C11_AtMostTenExchanges ==
    /\ [](\A p \in Procs : fs[p].n <= 10)
    /\ [][C11_Step]_vars

\* a fetch was redirected ten times and gave up, leaving the cache empty
C11_Witness ==
    /\ pc[1] = "done"
    /\ fs[1].err = "limit"
    /\ fs[1].n = 10
    /\ fs[1].ret = <<>>
    /\ entries = EmptyMap

\* the endpoint a resolvable Location names, seen from the endpoint that sent it
Target(current, location) ==
    IF HasPrefix(location, <<"/">>)
    THEN [current EXCEPT !.Path = location]
    ELSE CHOOSE u \in Endpoints : URLString(u) = location

\* the exchange under way is the one after the redirects followed so far, and
\* it goes to the address of the current target
C12_InOrder ==
    \A p \in Procs :
        /\ pc[p] \in {"read", "put"} => fs[p].n = fs[p].i + 1
        /\ pc[p] \in {"write", "read", "put"} =>
               sock[fs[p].conn].address = Address(fs[p].currentURL)

\* the first target is the endpoint asked for; a redirect that is followed
\* moves the fetch to the endpoint its Location names; a response that is no
\* redirect ends the fetch, which returns its body and no error after one
\* exchange more than the redirects it followed
C12_Step ==
    \A p \in Procs :
        /\ (pc[p] = "idle" /\ pc'[p] = "get") =>
               fs'[p].currentURL = fs'[p].u /\ fs'[p].i = 0 /\ fs'[p].n = 0
        /\ (/\ pc[p] = "put"
            /\ pc'[p] # "put"
            /\ IsRedirect(fs[p])
            /\ Resolvable(MapGet(fs[p].headers, <<"location">>))
            /\ fs[p].i < 9)
              => /\ pc'[p] = "get"
                 /\ fs'[p].currentURL =
                        Target(fs[p].currentURL, MapGet(fs[p].headers, <<"location">>))
                 /\ fs'[p].i = fs[p].i + 1
                 /\ fs'[p].n = fs[p].n
        /\ (pc[p] = "put" /\ pc'[p] # "put" /\ ~IsRedirect(fs[p]))
              => /\ pc'[p] = "store"
                 /\ fs'[p].body = fs[p].body
                 /\ fs'[p].i = fs[p].i
                 /\ fs'[p].n = fs[p].n
        /\ (pc[p] = "store" /\ pc'[p] # "store")
              => /\ pc'[p] = "done"
                 /\ fs'[p].ret = fs[p].body
                 /\ fs'[p].err = "nil"
                 /\ fs'[p].n = fs[p].i + 1

\* C12: a chain of k <= 9 redirects that ends in a response with a status
\* outside [300,400) takes exactly k+1 exchanges, in the order of the chain,
\* and the fetch returns the body of the last response with no error.
C12_ChainIsFollowed == []C12_InOrder /\ [][C12_Step]_vars

\* nine redirects and then a 200 whose body the fetch returned
C12_Witness ==
    /\ pc[1] = "done"
    /\ fs[1].err = "nil"
    /\ fs[1].n = 10
    /\ fs[1].ret = <<"A">>

\* the response the fetch has just read has no Location header, or an empty one
LacksLocation(f) ==
    <<"location">> \notin DOMAIN f.headers \/ f.headers[<<"location">>] = <<>>

\* a redirect without a Location ends the fetch in that step with the Location
\* error, no body, no exchange more and the cache as it was
C13_Step ==
    \A p \in Procs :
        (pc[p] = "put" /\ pc'[p] # "put" /\ IsRedirect(fs[p]) /\ LacksLocation(fs[p]))
            => /\ pc'[p] = "done"
               /\ fs'[p].err = "location"
               /\ fs'[p].ret = <<>>
               /\ fs'[p].n = fs[p].n
               /\ entries' = entries
               /\ sock' = sock

\* C13: a 3xx response with no Location header, or an empty one, makes the
\* fetch fail with an error that mentions Location, with no further exchange
\* and nothing stored.
C13_RedirectNeedsLocation == [][C13_Step]_vars

\* the second response of a fetch was a redirect without a Location
C13_Witness ==
    /\ pc[1] = "done"
    /\ fs[1].err = "location"
    /\ fs[1].n = 2
    /\ fs[1].ret = <<>>
    /\ entries = EmptyMap

\* an exchange on a connection whose peer closed it while it was idle either
\* gets its request written and then fails to read, or fails to write; the
\* fetch ends there with that error and no body, the connection is closed and
\* out of the pool, no connection is dialled and no request is written again
C14_Step ==
    \A p \in Procs :
        (/\ pc[p] \in {"write", "read"}
         /\ sock[fs[p].conn].peer = "closed"
         /\ pc'[p] # pc[p])
            => \/ /\ pc[p] = "write"
                  /\ pc'[p] = "read"
                  /\ fs'[p].conn = fs[p].conn
                  /\ fs'[p].n = fs[p].n + 1
                  /\ Len(sock') = Len(sock)
               \/ /\ pc'[p] = "done"
                  /\ fs'[p].err = (IF pc[p] = "write" THEN "write" ELSE "parse")
                  /\ fs'[p].ret = <<>>
                  /\ fs'[p].n = fs[p].n
                  /\ fs[p].conn \in closed'
                  /\ ~IsIdleIn(connections', fs[p].conn)
                  /\ Len(sock') = Len(sock)

\* C14: a fetch that is handed a pooled connection whose peer has closed it
\* fails with an I/O error; the connection is closed and never pooled again,
\* and the fetch neither dials nor repeats the request.
C14_DeadConnectionNoRetry ==
    /\ [](\A c \in 1..Len(sock) : c \in closed => ~IsIdleIn(connections, c))
    /\ [][C14_Step]_vars

\* the only connection ever dialled was pooled, closed by its peer, handed to
\* a fetch, and closed when the read on it failed
C14_Witness ==
    /\ pc[1] = "done"
    /\ fs[1].err = "parse"
    /\ fs[1].n = 1
    /\ Len(sock) = 1
    /\ sock[1].peer = "closed"
    /\ ~sock[1].drained
    /\ closed = {1}
    /\ connections = MapSet(EmptyMap, Address(fs[1].u), <<>>)

\* C15: an exchange returns an error and no body whenever the stream ends
\* before the response is complete: where every response that ends with the
\* server closing the connection is an incomplete one, no exchange on a
\* connection the server has closed is taken for a success.
C15_TruncatedIsAnError ==
    \A p \in Procs : pc[p] = "put" => sock[fs[p].conn].peer = "open"

\* the step that follows a redirect leaves the cache as it was; the step that
\* ends a fetch stores the response or not by the status and the
\* Cache-Control of that last response alone, whatever was met on the way
C16_Step ==
    \A p \in Procs :
        /\ (pc[p] = "put" /\ pc'[p] # "put" /\ IsRedirect(fs[p])) => entries' = entries
        /\ (pc[p] = "store" /\ pc'[p] # "store") =>
               LET k == URLString(fs[p].u)
               IN  IF /\ fs[p].statusCode = 200
                      /\ Eligible(MapGet(fs[p].headers, <<"cache-control">>))
                   THEN /\ k \in DOMAIN entries'
                        /\ entries'[k].Body = fs[p].body
                        /\ entries'[k].Headers = fs[p].headers
                        /\ entries'[k].Timestamp = now
                   ELSE entries' = entries

\* C16: whether a response is cached is decided on the final hop only: a 3xx
\* response is never stored, and the Cache-Control of the redirects on the way
\* has no effect on whether the final 200 is stored.
C16_FinalHopDecides ==
    /\ [](\A p \in Procs : pc[p] = "store" => ~IsRedirect(fs[p]))
    /\ [][C16_Step]_vars

\* a fetch of http://a/p took two exchanges, the second with b, where only the
\* 301 marked no-store leads, and the 200 that ended it is in the cache
C16_Witness ==
    /\ pc[1] = "done"
    /\ fs[1].err = "nil"
    /\ fs[1].n = 2
    /\ fs[1].u = U1
    /\ Len(sock) = 2
    /\ sock[2].address = Address(U3)
    /\ DOMAIN entries = {URLString(U1)}
    /\ entries[URLString(U1)].Body = fs[1].ret
    /\ <<"cache-control">> \notin DOMAIN entries[URLString(U1)].Headers

\* a response that is no redirect ends the fetch, which returns its body and
\* no error whatever the status; and the cache changes only when the status
\* of that response is 200
C17_Step ==
    /\ \A p \in Procs :
          /\ (pc[p] = "put" /\ pc'[p] # "put" /\ ~IsRedirect(fs[p]))
                => /\ pc'[p] = "store"
                   /\ fs'[p].statusCode = fs[p].statusCode
                   /\ fs'[p].body = fs[p].body
                   /\ entries' = entries
          /\ (pc[p] = "store" /\ pc'[p] # "store")
                => /\ pc'[p] = "done"
                   /\ fs'[p].ret = fs[p].body
                   /\ fs'[p].err = "nil"
                   /\ fs[p].statusCode # 200 => entries' = entries
    /\ (\E k \in DOMAIN entries' : k \notin DOMAIN entries \/ entries'[k] # entries[k])
          => \E p \in Procs : /\ pc[p] = "store"
                              /\ pc'[p] = "done"
                              /\ fs[p].statusCode = 200

\* C17: any status outside [300,400) ends the fetch with the body of the
\* response and no error, also a 404; the response is stored only when the
\* status is exactly 200.
C17_NonRedirectIsFinal == [][C17_Step]_vars

\* a fetch returned the body of a 404 and the cache is empty
C17_Witness ==
    /\ pc[1] = "done"
    /\ fs[1].err = "nil"
    /\ fs[1].n = 1
    /\ fs[1].ret = <<"E">>
    /\ entries = EmptyMap

\* the entry was stored from a response without a Cache-Control header
NoCacheControl(e) == <<"cache-control">> \notin DOMAIN e.Headers

\* a lookup of an entry stored without Cache-Control hits, returns its body
\* and changes nothing; such an entry goes or changes only by a clear or by a
\* store for its key
C18_Step ==
    /\ (last'.op = "Lookup" /\ now' = now) =>
          LET k == last'.key
          IN  (k \in DOMAIN entries /\ NoCacheControl(entries[k])) =>
                  /\ last'.found
                  /\ last'.body = entries[k].Body
                  /\ entries' = entries
    /\ \A k \in DOMAIN entries :
          (/\ NoCacheControl(entries[k])
           /\ (k \notin DOMAIN entries' \/ entries'[k] # entries[k]))
              => \/ last'.op = "Clear"
                 \/ last'.op = "Store" /\ last'.key = k

HasBadMaxAge(cacheControl) ==
    LET ds == Split(cacheControl, <<",">>)
    IN  \E i \in 1..Len(ds) :
            LET d == TrimSpace(ds[i])
            IN  \/ d = <<"max-age">>
                \/ /\ HasPrefix(d, <<"max-age", "=">>)
                   /\ ~(Len(d) > 2 /\ \A j \in 3..Len(d) : d[j] \in DecDigits)

C19_Step ==
    \A p \in Procs :
        (/\ pc[p] = "store"
         /\ pc'[p] # "store"
         /\ fs[p].statusCode = 200
         /\ HasBadMaxAge(MapGet(fs[p].headers, <<"cache-control">>)))
            => entries' = entries

\* C19: a final 200 response whose Cache-Control has a max-age directive with
\* an unparseable value is never stored in the cache.
C19_BadMaxAgeNotStored == [][C19_Step]_vars

\* an evict closes exactly the connections that were idle for the address,
\* leaves none idle for it and the other addresses as they were, so that a
\* checkout for the address finds nothing
C20_Step ==
    (last'.op = "Close" /\ <<last, connections, closed>>' # <<last, connections, closed>>) =>
        LET a      == last'.key
            before == Idle(connections, a)
        IN  /\ closed' = closed \cup {before[i] : i \in 1..Len(before)}
            /\ a \notin DOMAIN connections' \/ connections'[a] = <<>>
            /\ \A b \in DOMAIN connections \ {a} :
                   b \in DOMAIN connections' /\ connections'[b] = connections[b]
            /\ ~PoolGet(connections', a).found

\* C20: evict(address) closes every connection idle for the address and
\* removes them all, so that the next checkout for it reports not found.
C20_EvictClosesAll == [][C20_Step]_vars

\* two connections were checked in and evicted, and a checkout found nothing
C20_Witness ==
    /\ last.op = "Get"
    /\ ~last.found
    /\ Len(sock) = 2
    /\ closed = {1, 2}
    /\ held = {}
    /\ Address(U1) \notin DOMAIN connections

\* the connections idle under address a
IdleSet(conns, a) == {Idle(conns, a)[i] : i \in 1..Len(Idle(conns, a))}

C21_Step ==
    (last'.op \in {"Get", "Put", "Close"}
        /\ <<last, connections, closed, held>>' # <<last, connections, closed, held>>) =>
        LET a == last'.key
        IN  /\ \A b \in Addresses \ {a} :
                   /\ Idle(connections', b) = Idle(connections, b)
                   /\ IdleSet(connections, b) \cap closed' = IdleSet(connections, b) \cap closed
            /\ (last'.op = "Get" /\ last'.found) => last'.conn \in IdleSet(connections, a)
            /\ \A b \in Addresses : \A c \in IdleSet(connections', b) \ IdleSet(connections, b) :
                   last'.op = "Put" /\ last'.key = b /\ last'.conn = c

\* C21: checkin, checkout and evict on one address leave the idle list of
\* every other address as it was and close none of its connections; a
\* checkout returns a connection idle under the address asked for, and a
\* connection becomes idle under an address only by a checkin under it.
C21_PerAddress == [][C21_Step]_vars

\* one connection is idle under each of two addresses, the first address was
\* evicted and a checkout for the second returned its own connection
C21_Witness ==
    /\ last.op = "Get"
    /\ last.key = Address(U3)
    /\ last.found
    /\ last.conn = 2
    /\ closed = {1}
    /\ held = {2}
    /\ Len(sock) = 3
    /\ IdleSet(connections, Address(U1)) = {3}

C22_Step ==
    (last'.op \in {"Lookup", "Store"} /\ now' = now) =>
        LET k == last'.key
        IN  /\ \A j \in Keys \ {k} :
                   /\ j \in DOMAIN entries' <=> j \in DOMAIN entries
                   /\ j \in DOMAIN entries => entries'[j] = entries[j]
            /\ (last'.op = "Lookup" /\ last'.found) =>
                   /\ k \in DOMAIN entries
                   /\ last'.body = entries[k].Body

\* C22: a store or a lookup for one key, the removal of its expired entry
\* included, neither adds, removes nor changes the entry under any other
\* key, and a hit serves the body stored under the key asked for; the keys
\* of two URLs that differ only in their path are such keys.
C22_KeysAreIndependent == [][C22_Step]_vars

\* the entry of http://a/p was found expired and removed while the entry of
\* http://a/q stayed
C22_Witness ==
    /\ last.op = "Lookup"
    /\ last.key = URLString(U1)
    /\ last.log = "expired"
    /\ URLString(U1) \notin DOMAIN entries
    /\ URLString(U2) \in DOMAIN entries
    /\ URLString(U1) # URLString(U2)

C23_Step ==
    /\ last'.op = "Clear" => DOMAIN entries' = {}
    /\ (last'.op = "Lookup" /\ now' = now /\ last'.key \notin DOMAIN entries) =>
           /\ ~last'.found
           /\ last'.key \notin DOMAIN entries'
    /\ \A k \in DOMAIN entries' \ DOMAIN entries :
           last'.op = "Store" /\ last'.key = k

\* C23: clear() removes every entry: after it no key is present, a lookup
\* of an absent key misses and leaves it absent, and a key becomes present
\* again only by a store for that key.
C23_ClearRemovesAll == [][C23_Step]_vars

\* a cache that held an entry was cleared, after the clock had advanced
C23_Witness ==
    /\ last.op = "Clear"
    /\ last.found
    /\ entries = EmptyMap
    /\ now = MaxTime

\* the order in which one Fetch goes through its steps
C24_Order ==
    {<<"idle", "get">>, <<"idle", "done">>, <<"get", "write">>, <<"get", "dial">>,
     <<"dial", "write">>, <<"dial", "done">>, <<"write", "read">>, <<"write", "done">>,
     <<"read", "put">>, <<"read", "done">>, <<"read", "panic">>, <<"put", "get">>,
     <<"put", "store">>, <<"put", "done">>, <<"store", "done">>, <<"done", "idle">>}

C24_Step ==
    \A p \in Procs :
        /\ pc'[p] # pc[p] => <<pc[p], pc'[p]>> \in C24_Order
        /\ (pc[p] = "idle" /\ pc'[p] # "idle") =>
               <<connections, closed, sock>>' = <<connections, closed, sock>>
        /\ pc'[p] \in {"get", "dial", "write"} => fs'[p].n = fs'[p].i
        /\ pc'[p] \in {"read", "put"} => fs'[p].n = fs'[p].i + 1
        /\ pc'[p] \in {"idle", "get", "dial", "store"} => fs'[p].conn = 0
        /\ (pc[p] = "put" /\ pc'[p] # "put") =>
               fs[p].conn \in closed' \/ IsIdleIn(connections', fs[p].conn)
        /\ (pc[p] \in {"write", "read"} /\ pc'[p] = "done") => fs[p].conn \in closed'

\* C24: one fetch looks the cache up before it touches the pool or the
\* network, and runs its exchanges one after the other: checkout, dial,
\* write, read, checkin; the next exchange begins only when the connection
\* of the one before is checked in or closed, and the exchanges begun never
\* exceed the redirects followed by more than one.
C24_OneExchangeAtATime == [][C24_Step]_vars

\* the first exchange is over, its connection is checked in, and the second
\* exchange is about to check a connection out
C24_Witness ==
    /\ pc[1] = "get"
    /\ fs[1].i = 1
    /\ fs[1].n = 1
    /\ fs[1].conn = 0
    /\ IsIdleIn(connections, 1)
    /\ 1 \notin closed

C25_Step ==
    (last'.op \in PoolLocked
        /\ <<last, connections, closed, held>>' # <<last, connections, closed, held>>) =>
        /\ closed' = closed
        /\ sock' = sock

C26_Step ==
    \A p \in Procs :
        (pc[p] = "put" /\ pc'[p] # "put" /\ IsRedirect(fs[p]) /\ ~LacksLocation(fs[p])
            /\ ~Resolvable(fs[p].headers[<<"location">>]))
            => /\ pc'[p] = "done"
               /\ fs'[p].err = "resolve"
               /\ fs'[p].ret = <<>>
               /\ fs'[p].n = fs[p].n
               /\ entries' = entries
               /\ sock' = sock

\* C26: a 3xx response whose Location is neither an absolute http(s) URL
\* nor starts with "/" makes the fetch fail with the unsupported-format
\* error, without another exchange and without a retry.
C26_UnsupportedLocationFails == [][C26_Step]_vars

\* the only exchange of a fetch was answered by a redirect to "q", and the
\* fetch returned the resolve error
C26_Witness ==
    /\ pc[1] = "done"
    /\ fs[1].err = "resolve"
    /\ fs[1].ret = <<>>
    /\ fs[1].n = 1
    /\ Len(sock) = 1
    /\ entries = EmptyMap

\* a followed redirect whose Location starts with "/" keeps the scheme, the
\* host and the port of the URL that was just requested and takes the
\* Location as its path
C27_Step ==
    \A p \in Procs :
        (pc[p] = "put" /\ pc'[p] = "get" /\ ~LacksLocation(fs[p])
            /\ HasPrefix(fs[p].headers[<<"location">>], <<"/">>))
            => /\ fs'[p].currentURL.Scheme = fs[p].currentURL.Scheme
               /\ fs'[p].currentURL.Host = fs[p].currentURL.Host
               /\ fs'[p].currentURL.Port = fs[p].currentURL.Port
               /\ fs'[p].currentURL.Path = fs[p].headers[<<"location">>]
               /\ fs'[p].u = fs[p].u

\* C27: a root-relative Location is resolved against the current request
\* target, not against the URL the fetch was called with: after an absolute
\* redirect to another host, a following root-relative redirect stays on
\* that host.
C27_RelativeToCurrent == [][C27_Step]_vars

\* the fetch of http://a/p was sent to http://b/p and from there to /q, and
\* is about to request http://b/q
C27_Witness ==
    /\ pc[1] = "get"
    /\ fs[1].u = U1
    /\ fs[1].i = 2
    /\ fs[1].currentURL.Host = U3.Host
    /\ fs[1].currentURL.Host # U1.Host
    /\ fs[1].currentURL.Path = U2.Path
    /\ fs[1].currentURL.Path # U1.Path

IsChunked(headers) ==
    <<"transfer-encoding">> \in DOMAIN headers
        /\ headers[<<"transfer-encoding">>] = <<"chunked">>

\* the bytes of the chunks of each chunked response of Bodied, in order up to
\* its first chunk of size 0; the responses are told apart by their etag
C28_Chunks(headers) ==
    IF <<"etag">> \notin DOMAIN headers THEN <<"B">>
    ELSE IF headers[<<"etag">>] = <<"1">>
    THEN <<"H", "e", "l", "l", "o", " ", "W", "o", "r", "l", "d">>
    ELSE IF headers[<<"etag">>] = <<"2">>
    THEN <<"0", "1", "2", "3", "4", "5", "6", "7", "8", "9">>
    ELSE IF headers[<<"etag">>] = <<"3">> THEN <<"K">>
    ELSE <<"M">>

\* C28: the body of a chunked response is the bytes of its chunks, joined in
\* the order received and ending at the first chunk of size 0 ("Hello" then
\* " World" gives "Hello World"); bytes behind the terminating chunk are not
\* part of it.
C28_ChunksInOrder ==
    \A p \in Procs :
        (pc[p] = "put" /\ IsChunked(fs[p].headers)) =>
            fs[p].body = C28_Chunks(fs[p].headers)

\* the response in two chunks was read as "Hello World"
C28_Witness ==
    /\ pc[1] = "put"
    /\ IsChunked(fs[1].headers)
    /\ MapGet(fs[1].headers, <<"etag">>) = <<"1">>
    /\ Len(fs[1].body) = 11
    /\ fs[1].body[1] = "H"
    /\ fs[1].body[11] = "d"

C30_Framed(headers) ==
    IF IsChunked(headers) THEN C28_Chunks(headers)
    ELSE IF MapGet(headers, <<"etag">>) = <<"5">> THEN <<"N", "N">>
    ELSE <<"A">>

C30_HasLength(headers) == <<"content-length">> \in DOMAIN headers

\* C30: the framing of a body is the first that matches: chunked whenever
\* Transfer-Encoding: chunked is present, even next to a Content-Length;
\* otherwise exactly Content-Length bytes; and the stream is read to its end
\* only when neither header is present.
C30_FirstFramingWins ==
    \A p \in Procs :
        pc[p] = "put" =>
            LET h == fs[p].headers
                c == fs[p].conn
            IN  IF IsChunked(h) \/ C30_HasLength(h)
                THEN /\ fs[p].body = C30_Framed(h)
                     /\ ~IsChunked(h) => Len(fs[p].body) = Atoi(h[<<"content-length">>]).val
                     /\ ~sock[c].drained
                     /\ sock[c].peer = "open"
                ELSE /\ sock[c].drained
                     /\ sock[c].peer = "closed"
                     /\ fs[p].body = <<"C">>

\* the response with both headers was read as chunked: its body is the one
\* chunk, not the three bytes that Content-Length announces
C30_Witness ==
    /\ pc[1] = "put"
    /\ IsChunked(fs[1].headers)
    /\ C30_HasLength(fs[1].headers)
    /\ fs[1].headers[<<"content-length">>] = <<"3">>
    /\ fs[1].body = <<"M">>
    /\ ~sock[fs[1].conn].drained

\* the lines of a request, split at each CRLF
C31_Lines(request) == Split(request, <<"\r", "\n">>)

\* request is GET <path> HTTP/1.1, then exactly the two header lines Host:
\* <host> and User-Agent: GoWebBrowser/1.0 in either order, then a blank line
\* and nothing more
C31_WellFormed(request, u) ==
    LET lines == C31_Lines(request)
        n     == Len(lines)
    IN  /\ n = 5
        /\ lines[1] = <<"GET", " ">> \o u.Path \o <<" ", "HTTP/1.1">>
        /\ {lines[2], lines[3]} =
               {<<"Host", ":", " ">> \o u.Host,
                <<"User-Agent", ":", " ", "GoWebBrowser/1.0">>}
        /\ \A i \in 1..n : ~HasPrefix(lines[i], <<"Connection">>)
        /\ lines[4] = <<>>
        /\ lines[5] = <<>>

\* C31: every exchange sends one request: the line GET <path> HTTP/1.1, a
\* Host header with the host of the target, a User-Agent header with
\* GoWebBrowser/1.0, no Connection header and no body, ended by a blank line.
C31_RequestShape ==
    \A p \in Procs :
        pc[p] \in {"read", "put"} =>
            /\ C31_WellFormed(fs[p].request, fs[p].currentURL)
            /\ fs[p].n = fs[p].i + 1

\* after a redirect to http://b/p the second request was sent: GET /p with
\* Host: b, the User-Agent header first
C31_Witness ==
    /\ pc[1] = "read"
    /\ fs[1].i = 1
    /\ fs[1].currentURL = U3
    /\ fs[1].request = <<"GET", " ", "/", "p", " ", "HTTP/1.1", "\r", "\n",
                         "User-Agent", ":", " ", "GoWebBrowser/1.0", "\r", "\n",
                         "Host", ":", " ", "b", "\r", "\n", "\r", "\n">>

\* the numbers N of the directives max-age=N of a Cache-Control value, in
\* order, N a string of decimal digits
C32_MaxAges(cacheControl) ==
    LET parts == Split(cacheControl, <<",">>)
        dir(i) == TrimSpace(parts[i])
    IN  SelectSeq([i \in 1..Len(parts) |-> dir(i)],
                  LAMBDA d : /\ HasPrefix(d, <<"max-age", "=">>)
                             /\ Len(d) > 2
                             /\ \A j \in 3..Len(d) : d[j] \in DecDigits)

\* N of the last directive max-age=N, 0 when there is none
C32_LastMaxAge(cacheControl) ==
    LET ages == C32_MaxAges(cacheControl)
    IN  IF ages = <<>> THEN 0
        ELSE DigitsVal(SubSeq(ages[Len(ages)], 3, Len(ages[Len(ages)])), 10)

\* C32: every entry of the cache has maxAge >= 0: N of the last max-age=N of
\* the Cache-Control it was stored with, 0 when that has no max-age=N or the
\* response had no Cache-Control; the sentinels -1 (no-store) and -2
\* (unsupported directive) of the parser are in no entry.
C32_MaxAgeNotNegative ==
    \A k \in DOMAIN entries :
        /\ entries[k].MaxAge >= 0
        /\ entries[k].MaxAge = C32_LastMaxAge(MapGet(entries[k].Headers, <<"cache-control">>))

\* a response with max-age=2, max-age=1 is stored with maxAge 1
C32_Witness ==
    \E k \in DOMAIN entries :
        /\ Len(C32_MaxAges(MapGet(entries[k].Headers, <<"cache-control">>))) = 2
        /\ entries[k].MaxAge = 1

\* no Fetch is between its call and its return
C33_Quiet == \A p \in Procs : pc[p] \in {"idle", "done"}

\* the connections idle under any address
C33_IdleAnywhere == UNION {IdleSet(connections, a) : a \in DOMAIN connections}

C34_SchemeMatchesConnection ==
    \A p \in Procs :
        pc[p] \in {"write", "read", "put"} =>
            sock[fs[p].conn].tls = (fs[p].currentURL.Scheme = SchemeHTTPS)

\* an entry stored from a response with Cache-Control: max-age=0
C35_MaxAgeZero(e) ==
    /\ <<"cache-control">> \in DOMAIN e.Headers
    /\ e.Headers[<<"cache-control">>] = <<"max-age", "=", "0">>

C35_Step ==
    /\ (last'.op = "Lookup" /\ now' = now) =>
          LET k == last'.key
          IN  (k \in DOMAIN entries /\ C35_MaxAgeZero(entries[k])) =>
                  /\ last'.found
                  /\ last'.body = entries[k].Body
                  /\ entries' = entries
    /\ \A k \in DOMAIN entries :
          (/\ C35_MaxAgeZero(entries[k])
           /\ (k \notin DOMAIN entries' \/ entries'[k] # entries[k]))
              => \/ last'.op = "Clear"
                 \/ last'.op = "Store" /\ last'.key = k

\* C35: a 200 response with Cache-Control: max-age=0 is stored with maxAge 0
\* and does not expire: every later lookup of its key is a hit, whatever
\* time has passed, until a clear or a store that replaces it.
C35_MaxAgeZeroNeverExpires ==
    /\ [](\A k \in DOMAIN entries : C35_MaxAgeZero(entries[k]) => entries[k].MaxAge = 0)
    /\ [][C35_Step]_vars

\* an entry stored with max-age=0 at time 0 was found at time 2
C35_Witness ==
    /\ last.op = "Lookup"
    /\ last.found
    /\ now = 2
    /\ last.key \in DOMAIN entries
    /\ C35_MaxAgeZero(entries[last.key])
    /\ entries[last.key].Timestamp = 0
    /\ last.body = entries[last.key].Body

\* entries without the entry of key k
C36_Without(k) == [x \in (DOMAIN entries) \ {k} |-> entries[x]]

C36_Step ==
    /\ \A p \in Procs :
           (pc[p] # "done" /\ pc'[p] = "done" /\ fs'[p].err # "nil") =>
               /\ pc[p] \in {"dial", "write", "read", "put"}
               /\ entries' = entries
    /\ entries' # entries =>
           \E p \in Procs :
               \/ /\ pc[p] = "idle"
                  /\ pc'[p] \in {"get", "done"}
                  /\ URLString(fs'[p].u) \in DOMAIN entries
                  /\ ~Unexpired(entries[URLString(fs'[p].u)], now)
                  /\ entries' = C36_Without(URLString(fs'[p].u))
               \/ /\ pc[p] = "store"
                  /\ pc'[p] = "done"
                  /\ fs'[p].err = "nil"

\* C36: a fetch that returns an error has not added or replaced a cache
\* entry: the cache changes only when a fetch starts, by the removal of the
\* expired entry under the key of the URL it was called with, and when a
\* fetch stores its response and returns without error; the step by which a
\* fetch returns an error follows no store and leaves the cache as it is.
C36_ErrorStoresNothing == [][C36_Step]_vars

\* a fetch of http://a/p has returned an error after one exchange, at a time
\* when its key has no entry and the entry of http://b/p, stored at time 0,
\* is still there
C36_Witness ==
    /\ pc[1] = "done"
    /\ fs[1].u = U1
    /\ fs[1].err = "parse"
    /\ fs[1].n = 1
    /\ now = 2
    /\ URLString(U1) \notin DOMAIN entries
    /\ URLString(U3) \in DOMAIN entries
    /\ entries[URLString(U3)].Timestamp = 0

C37_Step ==
    \A p \in Procs :
        /\ (pc[p] = "put" /\ pc'[p] # "put" /\ IsRedirect(fs[p]) /\ ~LacksLocation(fs[p])
               /\ Resolvable(fs[p].headers[<<"location">>]) /\ fs[p].i + 1 < 10)
               => /\ pc'[p] = "get"
                  /\ fs'[p].n = fs[p].n
                  /\ entries' = entries
        /\ (pc[p] # "done" /\ pc'[p] = "done" /\ fs'[p].err = "nil") =>
               \/ pc[p] = "idle" /\ fs'[p].n = 0
                                 /\ URLString(fs'[p].u) \in DOMAIN entries
                                 /\ fs'[p].ret = entries[URLString(fs'[p].u)].Body
               \/ pc[p] = "store" /\ fs'[p].n = fs[p].n /\ fs[p].n >= 1

\* C37: a fetch looks the cache up once, under the key of the URL it was
\* called with and before its first exchange; the target of a redirect is
\* not looked up, so that a redirect to a URL that has a valid entry is
\* followed by an exchange for that URL all the same; a body comes from the
\* cache only in the first step of a fetch.
C37_LookupOnlyAtStart == [][C37_Step]_vars

\* the fetch of http://a/p was redirected to http://b/p, which has an entry
\* that is valid, and has sent its second request
C37_Witness ==
    /\ pc[1] = "read"
    /\ fs[1].u = U1
    /\ fs[1].currentURL = U3
    /\ fs[1].n = 2
    /\ URLString(U3) \in DOMAIN entries
    /\ Unexpired(entries[URLString(U3)], now)

\* a step of evict: the last call is Close and no Fetch has moved
C38_Step ==
    (last'.op = "Close" /\ pc' = pc /\ fs' = fs /\ held' = held /\ sock' = sock) =>
        LET a == last'.key
        IN  /\ closed' \ closed \subseteq IdleSet(connections, a)
            /\ \A p \in Procs :
                   pc[p] \in {"write", "read", "put"} => fs[p].conn \notin closed' \ closed
            /\ \A c \in held : c \notin closed' \ closed
            /\ \A c \in C33_IdleAnywhere' : c \in C33_IdleAnywhere

\* C38: evict(address) closes and removes the connections idle at that
\* moment and no other: a connection checked out by an exchange in flight is
\* not closed by it, and is checked in when its exchange succeeds, so that
\* the idle list of the address can be non-empty after an evict without a
\* new dial.
C38_EvictOnlyIdle ==
    /\ [][C38_Step]_vars
    /\ [][\A p \in Procs :
             (pc[p] = "put" /\ pc'[p] # "put" /\ fs[p].conn \notin closed) =>
                 /\ IsIdleIn(connections', fs[p].conn)
                 /\ fs[p].conn \notin closed']_vars

\* connection 2 was idle and was closed by the evict; connection 1, in use
\* at that time, was checked in afterwards and is idle, with no dial since
C38_Witness ==
    /\ last.op = "Close"
    /\ last.key = Address(U1)
    /\ Len(sock) = 2
    /\ closed = {2}
    /\ held = {}
    /\ Idle(connections, Address(U1)) = <<1>>
    /\ \A p \in Procs : pc[p] = "done" /\ fs[p].n = 1 /\ fs[p].err = "nil"

\* the entry that a store of the response w alone leaves
C39_EntryOf(w, e) ==
    LET r == ParseResponse([buf |-> w.data, end |-> w.end])
    IN  /\ e.Body = r.body
        /\ e.Headers = r.headers
        /\ e.MaxAge = C32_LastMaxAge(MapGet(r.headers, <<"cache-control">>))

C39_Step ==
    \A p \in Procs :
        (pc[p] = "store" /\ pc'[p] = "done" /\ fs[p].statusCode = 200) =>
            LET k == URLString(fs[p].u)
            IN  /\ k \in DOMAIN entries'
                /\ entries'[k].Body = fs[p].body
                /\ entries'[k].Headers = fs[p].headers
                /\ entries'[k].Timestamp = now

\* C39: two fetches of one URL that both miss the cache both go to the
\* network and both store; the entry of the key is then the one of the store
\* that ran last, and at every moment it is the whole (body, headers, maxAge,
\* storedAt) of one response, never parts of two.
C39_EntryOfOneResponse ==
    /\ [](\A k \in DOMAIN entries :
              \E w \in {W200Length, W200Chunked} : C39_EntryOf(w, entries[k]))
    /\ [][C39_Step]_vars

\* both fetches of http://a/p missed, made an exchange each and got
\* different responses; the entry is the one of the first caller
C39_Witness ==
    /\ \A p \in Procs : pc[p] = "done" /\ fs[p].n = 1 /\ fs[p].err = "nil"
    /\ fs[1].ret = <<"A">>
    /\ fs[2].ret = <<"B">>
    /\ URLString(U1) \in DOMAIN entries
    /\ C39_EntryOf(W200Length, entries[URLString(U1)])

C40_Step ==
    \A p \in Procs :
        /\ (pc[p] = "put" /\ pc'[p] = "get") =>
               LET idle == Idle(connections', Address(fs[p].currentURL))
               IN  idle # <<>> /\ idle[Len(idle)] = fs[p].conn
        /\ (pc[p] = "get" /\ pc'[p] # "get") =>
               LET idle == Idle(connections, Address(fs[p].currentURL))
               IN  IF idle # <<>>
                   THEN /\ pc'[p] = "write"
                        /\ fs'[p].conn = idle[Len(idle)]
                   ELSE pc'[p] = "dial"
        /\ (pc[p] = "dial" /\ pc'[p] = "write") =>
               \A c \in (1..Len(sock)) \ closed :
                   sock[c].address # Address(fs[p].currentURL)

\* C40: with one caller and responses framed by length or by chunks, a hop
\* of a redirect chain checks its connection in at the end of the list of
\* its address and the next hop checks out the connection at that end, so
\* the hops to one address use one connection: a connection is dialed for an
\* address only when no open one was dialed for it before, and none at all
\* when the pool holds an idle one.
C40_ChainReusesConnection ==
    /\ [][C40_Step]_vars
    /\ [](\A c, d \in (1..Len(sock)) \ closed :
              sock[c].address = sock[d].address => c = d)

\* the fourth exchange of a fetch, after three redirects on the address a:80,
\* runs on the one connection that was dialed
C40_Witness ==
    /\ pc[1] = "read"
    /\ fs[1].i = 3
    /\ fs[1].n = 4
    /\ Address(fs[1].currentURL) = Address(U1)
    /\ fs[1].conn = 1
    /\ Len(sock) = 1

====
